---- MODULE Spec2Model ----
(***************************************************************************)
(* A ZERO Player (SF2000 libretro core): transport controller, audio ring  *)
(* pipeline, seek and open, modelled from src/unnamed/part_001.            *)
(*                                                                         *)
(* The program is single threaded: every libretro entry point              *)
(* (retro_load_game, retro_run, retro_reset, retro_unload_game) runs to    *)
(* completion, so each is one action.  A handler is written as a function  *)
(* from a record of the program's globals to the record after the call;    *)
(* the action assigns the record's fields to the primed variables.         *)
(***************************************************************************)
EXTENDS Integers, Sequences, FiniteSets, TLC

\* ------------------------------------------------------------------ constants
MAX_AUDIO_BUFFER == 4096
\* a ring that holds less than two decoded blocks
AUDIO_RING_SIZE_small == 1500 * 4
AUDIO_RING_SIZE == 44100 * 4
AUDIO_REFILL_THRESHOLD == AUDIO_RING_SIZE \div 2
AUDIO_FMT_PCM == 1
AUDIO_FMT_ADPCM == 2
AUDIO_FMT_MP3 == 3
CODEC_TYPE_UNKNOWN == 0
CODEC_TYPE_MJPEG == 1
CODEC_TYPE_MPEG4 == 2
MP3_INPUT_BUF_SIZE == 8192
MP3_DECODE_BUF_SIZE == 8192
ADPCM_DECODE_BUF_SIZE == 16384
ADPCM_READ_BUF_SIZE == 8192
MENU_ITEMS == 11
LOCK_HOLD_FRAMES == 30 * 2
MAX_EXTRADATA_SIZE == 256

\* ------------------------------------------------------------------ bounds
\* video frames in a full-length test clip
ClipFrames == 17
\* video frames in an MP3 test clip
Mp3Frames == 28
\* video frames in the short clips
ShortFrames == 5

Min(a, b) == IF a < b THEN a ELSE b

\* ------------------------------------------------------------------ files
(* The containers on the SD card, each described by what parse_avi reads   *)
(* from it: the avih frame time, the audio strf block, the indexed video   *)
(* frames and audio chunks (all chunks `csize' bytes, the last one         *)
(* `clast'), the bytes after the 40-byte video format block (`extra'),    *)
(* and for MP3 what the bitstream itself says.                             *)
NoAudioStrf == [fmt |-> 0, channels |-> 0, rate |-> 0, block_align |-> 0,
                bits |-> 0, strf_size |-> 0, spb |-> 0]

File(exists, sig, usec, nframes, fourcc, extra, strf, nchunks, csize, clast, mp3) ==
    [exists |-> exists, sig |-> sig, usec |-> usec, nframes |-> nframes,
     fourcc |-> fourcc, extra |-> extra, strf |-> strf, nchunks |-> nchunks, csize |-> csize,
     clast |-> clast, mp3 |-> mp3]

NoMp3 == [frame_bytes |-> 0, rate |-> 0, channels |-> 0, junk |-> 0]

PcmStrf(ch, rate, bits) ==
    [fmt |-> 1, channels |-> ch, rate |-> rate, block_align |-> ch * (bits \div 8),
     bits |-> bits, strf_size |-> 16, spb |-> 0]
AdpcmStrf(ch, rate, align, spb) ==
    [fmt |-> 2, channels |-> ch, rate |-> rate, block_align |-> align,
     bits |-> 4, strf_size |-> 50, spb |-> spb]
Mp3Strf(ch, rate) ==
    [fmt |-> 85, channels |-> ch, rate |-> rate, block_align |-> 1,
     bits |-> 0, strf_size |-> 30, spb |-> 0]

\* the fourcc bytes of the streams on the card, and video_fourcc[0] = 0
FccMJPG == <<77, 74, 80, 71>>
FccXVID == <<88, 86, 73, 68>>
NoFourcc == <<0, 0, 0, 0>>

Files ==
    [   \* PCM 16-bit stereo 11025 Hz, 1 fps, one audio chunk per frame
        pcm |-> File(TRUE, TRUE, 1000000, ClipFrames, FccMJPG, 0, PcmStrf(2, 11025, 16),
                     ClipFrames, 44100, 44100, NoMp3),
        \* MS ADPCM mono 11025 Hz, 1 fps, 256-byte blocks of 500 samples; a
        \* chunk is 11 blocks and a 4-byte stub, two chunks per frame
        adpcm |-> File(TRUE, TRUE, 1000000, ClipFrames, FccMJPG, 0,
                       AdpcmStrf(1, 11025, 256, 500), 2 * ClipFrames, 2820, 2820, NoMp3),
        \* MP3 stereo 22050 Hz, 10 fps, one 418-byte MP3 frame per chunk
        mp3s |-> File(TRUE, TRUE, 100000, Mp3Frames, FccXVID, 24, Mp3Strf(2, 22050),
                      (Mp3Frames * 2205) \div 576 + 1, 418, 418,
                      [frame_bytes |-> 418, rate |-> 22050, channels |-> 2, junk |-> 0]),
        \* MP3 declared stereo 32000 Hz in the header, mono 22050 Hz in the
        \* bitstream, two 209-byte MP3 frames per chunk
        mp3m |-> File(TRUE, TRUE, 100000, Mp3Frames, FccMJPG, 0, Mp3Strf(2, 32000),
                      (Mp3Frames * 2205) \div 1152 + 1, 418, 418,
                      [frame_bytes |-> 209, rate |-> 22050, channels |-> 1, junk |-> 0]),
        \* video only, 30 fps
        mjpg |-> File(TRUE, TRUE, 33333, ShortFrames, FccMJPG, 0, NoAudioStrf, 0, 0, 0, NoMp3),
        \* PCM 8-bit mono 22050 Hz, 1 fps, whose audio stream ends before the
        \* video
        shortaud |-> File(TRUE, TRUE, 1000000, ClipFrames, FccMJPG, 0, PcmStrf(1, 22050, 8),
                          ClipFrames \div 2, 22050, 22050, NoMp3),
        \* not a RIFF/AVI file
        badsig |-> File(TRUE, FALSE, 0, 0, NoFourcc, 0, NoAudioStrf, 0, 0, 0, NoMp3),
        \* cannot be opened
        missing |-> File(FALSE, FALSE, 0, 0, NoFourcc, 0, NoAudioStrf, 0, 0, 0, NoMp3),
        \* valid signature and audio chunks, but no video frame indexed
        noframes |-> File(TRUE, TRUE, 66666, 0, FccMJPG, 0, PcmStrf(1, 11025, 16),
                          2, 1470, 1470, NoMp3),
        \* a 30 fps header with no stream and no frame behind it
        stub30 |-> File(TRUE, TRUE, 33333, 0, NoFourcc, 0, NoAudioStrf, 0, 0, 0, NoMp3),
        \* short Xvid clip, 15 fps, PCM 16-bit mono 22050 Hz
        xvid |-> File(TRUE, TRUE, 66666, ShortFrames, FccXVID, 24, PcmStrf(1, 22050, 16),
                      ShortFrames, 2940, 2940, NoMp3),
        \* the same clip with more extradata than the core keeps
        xvidbig |-> File(TRUE, TRUE, 66666, ShortFrames, FccXVID, 300, PcmStrf(1, 22050, 16),
                         ShortFrames, 2940, 2940, NoMp3),
        \* PCM 16-bit mono at exactly 44000 Hz, 30 fps
        pcm44 |-> File(TRUE, TRUE, 33333, ShortFrames, FccMJPG, 0, PcmStrf(1, 44000, 16),
                       ShortFrames, 2934, 2934, NoMp3),
        \* MS ADPCM stereo 48000 Hz, 15 fps, 512-byte blocks of 500 samples
        adpcm48 |-> File(TRUE, TRUE, 66666, ShortFrames, FccMJPG, 0,
                         AdpcmStrf(2, 48000, 512, 500), ShortFrames, 3072, 3072, NoMp3),
        \* MP3 stereo 44100 Hz, 10 fps, Xvid video
        mp3hi |-> File(TRUE, TRUE, 100000, ShortFrames, FccXVID, 24, Mp3Strf(2, 44100),
                       ShortFrames, 418, 418,
                       [frame_bytes |-> 418, rate |-> 44100, channels |-> 2, junk |-> 0]),
        \* 30 s of PCM 16-bit mono 22050 Hz at 15 fps: 450 frames, one audio
        \* chunk per second
        pcm15 |-> File(TRUE, TRUE, 66666, 450, FccMJPG, 0, PcmStrf(1, 22050, 16),
                       30, 44100, 44100, NoMp3),
        \* MP3 stereo 22050 Hz, 10 fps, one 418-byte MP3 frame per chunk, cut
        \* off 200 bytes into the MP3 frame at which the last video frame starts
        mp3cut |-> File(TRUE, TRUE, 100000, ShortFrames, FccMJPG, 0, Mp3Strf(2, 22050),
                        ((ShortFrames - 1) * 2205) \div 576 + 1, 418, 200,
                        [frame_bytes |-> 418, rate |-> 22050, channels |-> 2, junk |-> 0]),
        \* MS ADPCM mono 11025 Hz, 1 fps, 256-byte blocks of 500 samples, whose
        \* audio stream ends before the video: three chunks for five frames
        adpcmcut |-> File(TRUE, TRUE, 1000000, ShortFrames, FccMJPG, 0,
                          AdpcmStrf(1, 11025, 256, 500), 3, 2820, 2820, NoMp3),
        \* MS ADPCM audio chunks, but no video frame indexed
        adpcm0 |-> File(TRUE, TRUE, 66666, 0, FccMJPG, 0,
                        AdpcmStrf(1, 11025, 256, 500), 2, 2820, 2820, NoMp3),
        \* MP3 stereo 22050 Hz, 10 fps, whose first audio chunk is a 418-byte
        \* tag and no MP3 data
        mp3junk |-> File(TRUE, TRUE, 100000, ShortFrames, FccMJPG, 0, Mp3Strf(2, 22050),
                         ((ShortFrames * 2205) \div 576) + 2, 418, 418,
                         [frame_bytes |-> 418, rate |-> 22050, channels |-> 2,
                          junk |-> 418]),
        \* a time-lapse clip, one frame every two seconds, PCM 8-bit mono 11025 Hz
        lapse |-> File(TRUE, TRUE, 2000000, ShortFrames, FccMJPG, 0, PcmStrf(1, 11025, 8),
                       ShortFrames, 22050, 22050, NoMp3),
        \* a frame time of 2^31 - 1 microseconds, the largest the checker's
        \* integers hold (the field has 32 bits)
        lapsemax |-> File(TRUE, TRUE, 2147483647, ShortFrames, FccMJPG, 0,
                          PcmStrf(1, 11025, 8), ShortFrames, 22050, 22050, NoMp3),
        \* a header whose frame time is 0, PCM 8-bit mono 11025 Hz
        notime |-> File(TRUE, TRUE, 0, ShortFrames, FccMJPG, 0, PcmStrf(1, 11025, 8),
                        ShortFrames, 368, 368, NoMp3),
        \* MP3 audio chunks, mono 22050 Hz in the bitstream, but no video frame
        \* indexed
        mp3m0 |-> File(TRUE, TRUE, 100000, 0, FccMJPG, 0, Mp3Strf(2, 22050), 4, 418, 418,
                       [frame_bytes |-> 209, rate |-> 22050, channels |-> 1, junk |-> 0]),
        \* an MP3 stream header, stereo 22050 Hz, with no audio chunk in the file
        mp3mute |-> File(TRUE, TRUE, 100000, ShortFrames, FccMJPG, 0, Mp3Strf(2, 22050),
                         0, 0, 0, [frame_bytes |-> 418, rate |-> 22050, channels |-> 2, junk |-> 0])
    ]

\* video_file = NULL, and the chunk tables before the first parse
NULL == "NULL"

\* the card, which holds Files from power-on and is never written
VARIABLE disk

\* audio_sizes[i] of the chunk table built from file f (i is 0-based)
ChunkSize(f, i) == IF i = disk[f].nchunks - 1 THEN disk[f].clast ELSE disk[f].csize

\* the bytes of the first i audio chunks of file f, the sum of ChunkSize(f, k)
\* for k < i
BytesBefore(f, i) ==
    IF i <= 0 THEN 0
    ELSE i * disk[f].csize
         + (IF i >= disk[f].nchunks THEN disk[f].clast - disk[f].csize ELSE 0)

\* ------------------------------------------------------------------ file I/O
(* fseek/fread on the open file succeed (the card is readable and every    *)
(* indexed chunk lies inside the file).  Called with video_file == NULL    *)
(* they are undefined behaviour: the call fails, or the program dies; the  *)
(* step's `nullio' input picks which, and `halted' records a program that  *)
(* no longer runs.                                                         *)
NullIo == {"err", "crash"}

fseek(s) ==
    IF s.video_file # NULL THEN [s EXCEPT !.ret = 0]
    ELSE IF s.nullio = "crash" /\ s.halted = "no"
         THEN [s EXCEPT !.ret = -1, !.halted = "crash"]
         ELSE [s EXCEPT !.ret = -1]

audio_sizes(s, i) == ChunkSize(s.index, i)

\* ------------------------------------------------------------------ ring writes
\* the copy loop of the ADPCM and MP3-stereo paths: memcpy in at most two
\* pieces, wrapping the write cursor
RECURSIVE ring_copy(_, _, _)
ring_copy(s, decoded_bytes, written) ==
    IF ~(written < decoded_bytes) THEN s
    ELSE LET before_wrap == AUDIO_RING_SIZE - s.aring_write
             to_write == Min(decoded_bytes - written, before_wrap)
         IN ring_copy([s EXCEPT !.aring_write = (s.aring_write + to_write) % AUDIO_RING_SIZE,
                                !.g_written = s.g_written + to_write],
                      decoded_bytes, written + to_write)

\* ------------------------------------------------------------------ PCM
RECURSIVE read_audio_disk_pcm(_, _, _)
read_audio_disk_pcm(s, bytes_needed, bytes_read) ==
    IF ~(bytes_read < bytes_needed /\ s.audio_chunk_idx < s.total_audio_chunks)
    THEN [s EXCEPT !.ret = bytes_read]
    ELSE LET chunk_size == audio_sizes(s, s.audio_chunk_idx)
             \* uint32 remaining = chunk_size - audio_chunk_pos wraps when the
             \* cursor lies beyond the chunk; to_read is then left alone
             remaining == chunk_size - s.audio_chunk_pos
             want == bytes_needed - bytes_read
             to_read == IF remaining >= 0 /\ want > remaining THEN remaining ELSE want
             sk == fseek(s)
         IN IF sk.ret # 0 THEN [sk EXCEPT !.ret = bytes_read]
            ELSE LET got == to_read
                     pos == s.audio_chunk_pos + got
                     s1 == IF pos >= chunk_size
                           THEN [sk EXCEPT !.audio_chunk_idx = s.audio_chunk_idx + 1,
                                           !.audio_chunk_pos = 0]
                           ELSE [sk EXCEPT !.audio_chunk_pos = pos]
                 IN read_audio_disk_pcm(s1, bytes_needed, bytes_read + got)

\* the source samples in `bytes' bytes of the stream as its header lays them
\* out: one value of audio_bits bits per channel
PcmFrames(s, bytes) ==
    IF s.audio_channels * s.audio_bits >= 8
    THEN bytes \div ((s.audio_channels * s.audio_bits) \div 8) ELSE 0

\* the PCM branch of refill_audio_ring
RECURSIVE refill_pcm(_, _)
\* the tail of the loop body, r being the state after read_audio_disk_pcm
refill_pcm_got(r, free_space) ==
    IF r.ret <= 0 THEN r
    ELSE refill_pcm([r EXCEPT !.aring_write = (r.aring_write + r.ret) % AUDIO_RING_SIZE,
                              !.aring_count = r.aring_count + r.ret,
                              !.g_written = r.g_written + r.ret,
                              !.g_samples = @ + PcmFrames(r, r.ret)],
                    free_space - r.ret)

refill_pcm(s, free_space) ==
    IF ~(free_space > 0 /\ s.audio_chunk_idx < s.total_audio_chunks) THEN s
    ELSE refill_pcm_got(
             read_audio_disk_pcm(
                 s, Min(Min(free_space, AUDIO_RING_SIZE - s.aring_write), 4096), 0),
             free_space)

\* ------------------------------------------------------------------ ADPCM
\* samples produced by decode_adpcm_block_mono / _stereo for a block of
\* src_size bytes (two header samples per channel, then two per byte)
decode_adpcm_block_mono(src_size, max_samples) ==
    IF src_size < 7 THEN 0 ELSE Min(max_samples, 2 + 2 * (src_size - 7))

decode_adpcm_block_stereo(src_size, max_samples) ==
    IF src_size < 14 THEN 0
    ELSE LET hdr == IF 1 < max_samples THEN (IF 3 < max_samples THEN 4 ELSE 2) ELSE 0
             room == IF max_samples - hdr <= 1 THEN 0 ELSE (max_samples - hdr) \div 2
         IN hdr + 2 * Min(src_size - 14, room)

RECURSIVE adpcm_loop(_, _, _, _, _)
adpcm_loop(s, free_space, loop_count, skip_count, total_decoded_bytes) ==
    IF ~(free_space > 512 /\ s.audio_chunk_idx < s.total_audio_chunks /\ loop_count < 500)
    THEN [s EXCEPT !.ret = total_decoded_bytes]
    ELSE LET chunk_size == audio_sizes(s, s.audio_chunk_idx)
             remaining == chunk_size - s.audio_chunk_pos    \* (int)remaining
             b1 == IF s.adpcm_block_align > remaining THEN remaining ELSE s.adpcm_block_align
             block_size == IF b1 > ADPCM_READ_BUF_SIZE THEN ADPCM_READ_BUF_SIZE ELSE b1
         IN IF block_size < 7
            THEN LET s1 == [s EXCEPT !.audio_chunk_idx = s.audio_chunk_idx + 1,
                                     !.audio_chunk_pos = 0]
                 IN IF skip_count + 1 > 100 THEN [s1 EXCEPT !.ret = total_decoded_bytes]
                    ELSE adpcm_loop(s1, free_space, loop_count + 1, skip_count + 1,
                                    total_decoded_bytes)
            ELSE LET sk == fseek(s)
                 IN IF sk.ret # 0 THEN [sk EXCEPT !.ret = total_decoded_bytes]
                    ELSE LET got == block_size
                             pos == s.audio_chunk_pos + got
                             s1 == IF pos >= chunk_size
                                   THEN [sk EXCEPT !.audio_chunk_idx = s.audio_chunk_idx + 1,
                                                   !.audio_chunk_pos = 0]
                                   ELSE [sk EXCEPT !.audio_chunk_pos = pos]
                             samples == IF s.audio_channels = 1
                                        THEN decode_adpcm_block_mono(got, ADPCM_DECODE_BUF_SIZE)
                                        ELSE decode_adpcm_block_stereo(got, ADPCM_DECODE_BUF_SIZE)
                         IN IF samples <= 0
                            THEN adpcm_loop(s1, free_space, loop_count + 1, skip_count,
                                            total_decoded_bytes)
                            ELSE LET decoded_bytes == Min(samples * 2, free_space)
                                     s2 == ring_copy(s1, decoded_bytes, 0)
                                     s3 == [s2 EXCEPT !.aring_count = s2.aring_count + decoded_bytes,
                                                      !.g_samples = @ + samples \div s.audio_channels,
                                                      !.g_dropped = @ + samples * 2 - decoded_bytes]
                                     total == total_decoded_bytes + decoded_bytes
                                 IN IF total > 4096 THEN [s3 EXCEPT !.ret = total]
                                    ELSE adpcm_loop(s3, free_space - decoded_bytes,
                                                    loop_count + 1, skip_count, total)

read_audio_disk_adpcm(s) ==
    IF s.adpcm_block_align <= 0 \/ s.audio_chunk_idx >= s.total_audio_chunks
    THEN [s EXCEPT !.ret = 0]
    ELSE adpcm_loop(s, AUDIO_RING_SIZE - s.aring_count, 0, 0, 0)

\* ------------------------------------------------------------------ MP3
(* mad_init always yields a handle.  mad_decode works on the staging       *)
(* buffer, which holds bytes of file `mp3_src' starting at an MP3 frame    *)
(* boundary: with a whole frame buffered it decodes that one frame         *)
(* (spf samples of 16-bit PCM per channel of the bitstream), otherwise it  *)
(* asks for more input and consumes nothing.  A stream may begin with      *)
(* `junk' bytes that are no MP3 data (a tag): while the staged bytes start *)
(* inside them the decoder reports a recoverable error, and skips none of  *)
(* them or up to mad_env of them, as the step's input has it.              *)
mp3_init(s) ==
    IF ~s.mp3_initialized
    THEN [s EXCEPT !.mp3_initialized = TRUE, !.mp3_input_len = 0,
                   !.mp3_input_remaining = 0]
    ELSE s

\* a reset that leaves the staged bytes where they are
mp3_reset_keeping(s) == s

mp3_reset(s) == [s EXCEPT !.mp3_input_len = 0, !.mp3_input_remaining = 0]

MadSkips == {0, 64}

\* the consecutive decode errors that end a call of read_audio_disk_mp3: 100
\* in the source, scaled to the tag of the test stream
ErrorLimit == 16

\* the stream offset of the first staged byte
mp3_staged_from(s) ==
    BytesBefore(s.mp3_src, s.audio_chunk_idx) + s.audio_chunk_pos - s.mp3_input_len

mad_decode(s) ==
    LET m == disk[s.mp3_src].mp3
        spf == IF m.rate >= 32000 THEN 1152 ELSE 576
    IN IF mp3_staged_from(s) < m.junk
       THEN [result |-> "MAD_ERR",
             bytes_read |-> Min(s.mad_env, m.junk - mp3_staged_from(s)),
             bytes_done |-> 0]
       ELSE IF s.mp3_input_len >= m.frame_bytes
       THEN [result |-> "MAD_OK", bytes_read |-> m.frame_bytes,
             bytes_done |-> spf * 2 * m.channels]
       ELSE [result |-> "MAD_NEED_MORE_INPUT", bytes_read |-> 0, bytes_done |-> 0]

mad_get_info(s) == [sr |-> disk[s.mp3_src].mp3.rate, ch |-> disk[s.mp3_src].mp3.channels]

RECURSIVE mp3_fill_loop(_, _)
mp3_fill_loop(s, space) ==
    IF ~(space > 0 /\ s.audio_chunk_idx < s.total_audio_chunks) THEN s
    ELSE LET chunk_size == audio_sizes(s, s.audio_chunk_idx)
             remaining == chunk_size - s.audio_chunk_pos
         IN IF remaining = 0
            THEN mp3_fill_loop([s EXCEPT !.audio_chunk_idx = s.audio_chunk_idx + 1,
                                         !.audio_chunk_pos = 0], space)
            ELSE LET to_read == IF space < remaining THEN space ELSE remaining
                     sk == fseek(s)
                 IN IF sk.ret # 0 THEN sk
                    ELSE LET got == to_read
                             pos == s.audio_chunk_pos + got
                             s1 == [sk EXCEPT !.mp3_input_len = s.mp3_input_len + got,
                                              !.mp3_src = s.video_file]
                             s2 == IF pos >= chunk_size
                                   THEN [s1 EXCEPT !.audio_chunk_idx = s.audio_chunk_idx + 1,
                                                   !.audio_chunk_pos = 0]
                                   ELSE [s1 EXCEPT !.audio_chunk_pos = pos]
                         IN IF got = 0 THEN sk ELSE mp3_fill_loop(s2, space - got)

mp3_fill_input_buffer(s) ==
    LET s1 == IF s.mp3_input_remaining > 0 /\ s.mp3_input_remaining < s.mp3_input_len
              THEN [s EXCEPT !.mp3_input_len = s.mp3_input_remaining]
              ELSE IF s.mp3_input_remaining <= 0 THEN [s EXCEPT !.mp3_input_len = 0]
              ELSE s
        space == MP3_INPUT_BUF_SIZE - s1.mp3_input_len - 8
    IN IF space <= 0 THEN [s1 EXCEPT !.ret = s1.mp3_input_len]
       ELSE LET s2 == mp3_fill_loop(s1, space)
            IN [s2 EXCEPT !.mp3_input_remaining = s2.mp3_input_len, !.ret = s2.mp3_input_len]

\* a mono branch that stores every sample once
mp3_write_mono_once(s, mono_samples) ==
    [s EXCEPT !.aring_write = (s.aring_write + 2 * mono_samples) % AUDIO_RING_SIZE,
              !.g_written = s.g_written + 2 * mono_samples]

\* the mono branch: every sample is stored twice, four bytes at
\* aring_write .. aring_write + 3, with the cursor wrapped after the store
mp3_write_mono(s, mono_samples) ==
    LET oob == \E i \in 0 .. mono_samples - 1 :
                   ((s.aring_write + 4 * i) % AUDIO_RING_SIZE) + 3 >= AUDIO_RING_SIZE
    IN [s EXCEPT !.aring_write = (s.aring_write + 4 * mono_samples) % AUDIO_RING_SIZE,
                 !.g_written = s.g_written + 4 * mono_samples,
                 !.halted = IF oob /\ s.halted = "no" THEN "oob" ELSE s.halted]

\* the stereo branch and the tail of the loop body: copy, count, stop past
\* 4096 decoded bytes
RECURSIVE mp3_loop(_, _, _, _)
mp3_stored(s, bytes, free_space, total_decoded_bytes) ==
    IF total_decoded_bytes + bytes > 4096
    THEN [s EXCEPT !.aring_count = @ + bytes, !.ret = total_decoded_bytes + bytes]
    ELSE mp3_loop([s EXCEPT !.aring_count = @ + bytes], free_space - bytes, 0,
                  total_decoded_bytes + bytes)

\* MAD_OK: note the format on the first frame, drop the consumed input,
\* write the PCM to the ring (mono doubled to stereo)
mp3_decoded(s, d, free_space, total_decoded_bytes) ==
    LET inf == mad_get_info(s)
        left == s.mp3_input_len - d.bytes_read
        s3 == [s EXCEPT !.mp3_detected_samplerate = IF @ = 0 THEN inf.sr ELSE @,
                        !.mp3_detected_channels =
                            IF s.mp3_detected_samplerate = 0 THEN inf.ch ELSE @,
                        !.mp3_input_remaining = left, !.mp3_input_len = left]
        actual_channels == IF s3.mp3_detected_channels > 0
                           THEN s3.mp3_detected_channels ELSE s3.audio_channels
        ms0 == d.bytes_done \div 2
        mono_samples == IF ms0 * 4 > free_space THEN free_space \div 4 ELSE ms0
        decoded_bytes == Min(d.bytes_done, free_space)
    IN IF d.bytes_done <= 0 THEN mp3_loop(s3, free_space, 0, total_decoded_bytes)
       ELSE IF actual_channels = 1
       THEN mp3_stored(mp3_write_mono(
                           [s3 EXCEPT !.g_samples = @ + d.bytes_done \div (2 * inf.ch),
                                      !.g_dropped = @ + (ms0 - mono_samples) * 4],
                           mono_samples),
                       mono_samples * 4, free_space, total_decoded_bytes)
       ELSE mp3_stored(ring_copy(
                           [s3 EXCEPT !.g_samples = @ + d.bytes_done \div (2 * inf.ch),
                                      !.g_dropped = @ + d.bytes_done - decoded_bytes],
                           decoded_bytes, 0),
                       decoded_bytes, free_space, total_decoded_bytes)

\* MAD_NEED_MORE_INPUT, after the second mp3_fill_input_buffer; len0 is the
\* staged length the decoder was offered
mp3_topped_up(s, len0, free_space, consecutive_errors, total_decoded_bytes) ==
    IF s.ret <= 0 THEN [s EXCEPT !.ret = total_decoded_bytes]
    \* nothing was consumed and nothing could be added: the next iteration
    \* repeats this one, and the loop never ends
    ELSE IF s.mp3_input_len = len0
    THEN [s EXCEPT !.ret = total_decoded_bytes,
                   !.halted = IF @ = "no" THEN "hang" ELSE @]
    ELSE mp3_loop(s, free_space, consecutive_errors, total_decoded_bytes)

\* a loop body that takes the decoder's word for the bytes an error used up
mp3_decode_no_skip(s, d, need, free_space, consecutive_errors, total_decoded_bytes) ==
    IF (need /\ s.ret <= 0) \/ s.mp3_input_len <= 0
    THEN [s EXCEPT !.ret = total_decoded_bytes]
    ELSE CASE d.result = "MAD_OK" ->
              mp3_decoded(s, d, free_space, total_decoded_bytes)
           [] d.result = "MAD_ERR" ->
              mp3_loop([s EXCEPT !.mp3_input_remaining = s.mp3_input_len - d.bytes_read,
                                 !.mp3_input_len = s.mp3_input_len - d.bytes_read,
                                 !.g_errors = @ + 1, !.g_skipped = @ + d.bytes_read],
                       free_space, consecutive_errors + 1, total_decoded_bytes)
           [] OTHER -> [s EXCEPT !.ret = total_decoded_bytes]

\* the loop body from mad_decode on; need tells whether this iteration
\* called mp3_fill_input_buffer first
mp3_decode(s, d, need, free_space, consecutive_errors, total_decoded_bytes) ==
    IF (need /\ s.ret <= 0) \/ s.mp3_input_len <= 0
    THEN [s EXCEPT !.ret = total_decoded_bytes]
    ELSE CASE d.result = "MAD_OK" ->
              mp3_decoded(s, d, free_space, total_decoded_bytes)
           [] d.result = "MAD_NEED_MORE_INPUT" ->
              mp3_topped_up(
                  mp3_fill_input_buffer(
                      [s EXCEPT !.mp3_input_remaining = s.mp3_input_len - d.bytes_read,
                                !.mp3_input_len = s.mp3_input_len - d.bytes_read]),
                  s.mp3_input_len, free_space, consecutive_errors, total_decoded_bytes)
           [] d.result = "MAD_ERR" ->
              LET bytes_read == IF d.bytes_read = 0 THEN 1 ELSE d.bytes_read
                  l2 == s.mp3_input_len - bytes_read
              IN mp3_loop([s EXCEPT !.mp3_input_remaining = l2, !.mp3_input_len = l2,
                                    !.g_errors = @ + 1, !.g_skipped = @ + bytes_read],
                          free_space, consecutive_errors + 1, total_decoded_bytes)
           [] OTHER -> [s EXCEPT !.g_errors = @ + 1, !.ret = total_decoded_bytes]

\* mad_decode on the staging buffer as it stands after the optional fill
mp3_filled(s, need, free_space, consecutive_errors, total_decoded_bytes) ==
    mp3_decode(s, mad_decode(s), need, free_space, consecutive_errors,
               total_decoded_bytes)

mp3_loop(s, free_space, consecutive_errors, total_decoded_bytes) ==
    IF ~(free_space > 512 /\ consecutive_errors < ErrorLimit)
    THEN [s EXCEPT !.ret = total_decoded_bytes]
    ELSE IF s.mp3_input_remaining < 2048
    THEN mp3_filled(mp3_fill_input_buffer(s), TRUE, free_space, consecutive_errors,
                    total_decoded_bytes)
    ELSE mp3_filled(s, FALSE, free_space, consecutive_errors, total_decoded_bytes)

read_audio_disk_mp3(s) ==
    IF s.audio_chunk_idx >= s.total_audio_chunks /\ s.mp3_input_remaining <= 0
    THEN [s EXCEPT !.ret = 0]
    \* audio_sizes[-1] is read
    ELSE IF s.audio_chunk_idx < 0
    THEN [s EXCEPT !.halted = IF @ = "no" THEN "oob" ELSE @, !.ret = 0]
    ELSE mp3_loop(mp3_init(s), AUDIO_RING_SIZE - s.aring_count, 0, 0)

\* ------------------------------------------------------------------ ring
\* a refill that reads nothing
refill_audio_ring_none(s) == s

\* the codec path of refill_audio_ring, pcm_free being the PCM branch's
\* free_space
refill_source(s, pcm_free) ==
    IF s.audio_format = AUDIO_FMT_ADPCM THEN read_audio_disk_adpcm(s)
    ELSE IF s.audio_format = AUDIO_FMT_MP3 THEN read_audio_disk_mp3(s)
    ELSE refill_pcm(s, pcm_free)

\* the record of a call: s is the state it found, r the state it leaves
refill_logged(s, r) ==
    [r EXCEPT !.g_refills = Append(@, [fmt |-> s.audio_format,
                                       count0 |-> s.aring_count,
                                       free |-> AUDIO_RING_SIZE - s.aring_count,
                                       appended |-> r.g_written - s.g_written,
                                       errors |-> r.g_errors - s.g_errors,
                                       samples |-> r.g_samples - s.g_samples,
                                       dropped |-> r.g_dropped - s.g_dropped])]

\* refill_audio_ring with the PCM free space taken as the whole ring
refill_audio_ring_full(s) ==
    IF ~s.has_audio \/ s.audio_chunk_idx >= s.total_audio_chunks THEN s
    ELSE refill_logged(s, refill_source(s, AUDIO_RING_SIZE))

refill_audio_ring(s) ==
    IF ~s.has_audio \/ s.audio_chunk_idx >= s.total_audio_chunks THEN s
    ELSE refill_logged(s, refill_source(s, AUDIO_RING_SIZE - s.aring_count))

\* read_audio_ring handing out bytes_needed bytes whatever the ring holds
read_audio_ring_unchecked(s, bytes_needed, bytes_read) ==
    [s EXCEPT !.aring_read = (s.aring_read + bytes_needed) % AUDIO_RING_SIZE,
              !.aring_count = s.aring_count - bytes_needed,
              !.g_consumed = s.g_consumed + bytes_needed,
              !.ret = bytes_needed]

RECURSIVE read_audio_ring(_, _, _)
read_audio_ring(s, bytes_needed, bytes_read) ==
    IF ~(bytes_read < bytes_needed /\ s.aring_count > 0) THEN [s EXCEPT !.ret = bytes_read]
    ELSE LET before_wrap == AUDIO_RING_SIZE - s.aring_read
             avail == Min(s.aring_count, before_wrap)
             to_read == Min(bytes_needed - bytes_read, avail)
         IN read_audio_ring([s EXCEPT !.aring_read = (s.aring_read + to_read) % AUDIO_RING_SIZE,
                                      !.aring_count = s.aring_count - to_read,
                                      !.g_consumed = s.g_consumed + to_read],
                            bytes_needed, bytes_read + to_read)

\* a reset that does nothing
ring_reset_skipped(s) == s

\* a reset that leaves the write cursor where it was
ring_reset_read_only(s) ==
    [s EXCEPT !.aring_read = 0, !.aring_count = 0, !.g_written = 0, !.g_consumed = 0]

\* read = write = count = 0, as written out at every reset site
ring_reset(s) ==
    [s EXCEPT !.aring_read = 0, !.aring_write = 0, !.aring_count = 0,
              !.g_written = 0, !.g_consumed = 0]

\* the conversion to the output buffer and the delivery; s.ret is what
\* read_audio_ring returned
\* a sender that counts the bytes it pulled from the ring
play_audio_send_pulled(s) ==
    IF s.ret \div s.audio_bytes_per_sample <= 0 THEN s
    ELSE [s EXCEPT !.audio_samples_sent = @ + s.ret,
                   !.g_sent = @ + Min(s.ret \div s.audio_bytes_per_sample, MAX_AUDIO_BUFFER)]

play_audio_send(s) ==
    LET got_samples == s.ret \div s.audio_bytes_per_sample
        effective_bits == IF s.audio_format \in {AUDIO_FMT_ADPCM, AUDIO_FMT_MP3}
                          THEN 16 ELSE s.audio_bits
        effective_channels == IF s.audio_format = AUDIO_FMT_MP3 THEN 2
                              ELSE s.audio_channels
        out == IF (effective_channels \in {1, 2} /\ effective_bits = 16)
                  \/ effective_bits = 8
               THEN Min(got_samples, MAX_AUDIO_BUFFER) ELSE 0
    IN IF got_samples <= 0 THEN s
       ELSE IF out > 0
       THEN [s EXCEPT !.audio_samples_sent = @ + out, !.g_sent = @ + out]
       ELSE s

\* the samples due and the read from the ring, after the optional refill
play_audio_due(s) ==
    LET effective_rate == IF s.audio_format = AUDIO_FMT_MP3 /\ s.mp3_detected_samplerate > 0
                          THEN s.mp3_detected_samplerate ELSE s.audio_sample_rate
        sync_offset == effective_rate \div 10
        \* (uint64)current_frame_idx * rate / fps + sync_offset - audio_samples_sent
        \* as an int64.  A frame index of -1 converts to 2^64 - 1, and a seek to
        \* it left audio_samples_sent at (2^64 - rate) / clip_fps: `sent_wrapped'
        \* marks that value, audio_samples_sent then counting from it
        to_send0 ==
            IF s.current_frame_idx >= 0 /\ ~s.sent_wrapped
            THEN (s.current_frame_idx * effective_rate) \div s.clip_fps + sync_offset
                 - s.audio_samples_sent
            ELSE IF s.current_frame_idx < 0 /\ s.sent_wrapped
            THEN sync_offset - s.audio_samples_sent
            ELSE IF s.current_frame_idx < 0
            THEN (IF s.clip_fps >= 2 THEN MAX_AUDIO_BUFFER + 1 ELSE 0)
            ELSE (IF s.clip_fps >= 2 THEN 0
                  ELSE (s.current_frame_idx * effective_rate) \div s.clip_fps + sync_offset
                       + effective_rate - s.audio_samples_sent)
        to_send == Min(to_send0, MAX_AUDIO_BUFFER)
        bytes_needed == Min(to_send * s.audio_bytes_per_sample, MAX_AUDIO_BUFFER * 4)
    IN IF to_send0 <= 0 THEN s
       ELSE play_audio_send(read_audio_ring([s EXCEPT !.g_due = to_send0], bytes_needed, 0))

\* a full batch is delivered on every tick, whatever is due
play_audio_for_frame_full_batch(s) ==
    IF ~s.has_audio \/ ~s.audio_batch_cb \/ s.audio_bytes_per_sample = 0 THEN s
    ELSE [s EXCEPT !.audio_samples_sent = @ + MAX_AUDIO_BUFFER,
                   !.g_sent = MAX_AUDIO_BUFFER, !.g_due = MAX_AUDIO_BUFFER]

play_audio_for_frame(s) ==
    IF ~s.has_audio \/ ~s.audio_batch_cb \/ s.audio_bytes_per_sample = 0 THEN s
    ELSE IF s.aring_count < AUDIO_REFILL_THRESHOLD
    THEN play_audio_due(refill_audio_ring(s))
    ELSE play_audio_due(s)

\* ------------------------------------------------------------------ video
(* decode_single_frame: past the guard the frame is read and handed to the *)
(* codec; g_decodes lists the frames that got that far.  The Xvid decoder  *)
(* is created on the first MPEG-4 frame and the extradata sent once.       *)
\* g_decoders and g_buffers count the decoder instances and plane buffers
\* that exist; g_released lists the releases of the current step
close_xvid_handle(s) ==
    IF s.xvid_handle # NULL
    THEN [s EXCEPT !.xvid_handle = NULL, !.g_decoders = @ - 1,
                   !.g_released = Append(@, "decoder")]
    ELSE s

close_xvid_buffer(s) ==
    IF s.yuv_buffer # NULL
    THEN [s EXCEPT !.yuv_buffer = NULL, !.g_buffers = @ - 1,
                   !.g_released = Append(@, "yuv")]
    ELSE s

\* a close that destroys the decoder without looking at the handle
close_xvid_unguarded(s) ==
    [close_xvid_buffer([s EXCEPT !.xvid_handle = NULL, !.g_decoders = @ - 1,
                                 !.g_released = Append(@, "decoder")])
     EXCEPT !.xvid_initialized = FALSE]

close_xvid(s) ==
    [close_xvid_buffer(close_xvid_handle(s)) EXCEPT !.xvid_initialized = FALSE]

\* xvid_env is the outcome the library and the allocator give this step
XvidEnvs == {"ok", "nocreate", "nomem"}

init_xvid_mpeg4(s) ==
    IF s.xvid_initialized THEN [s EXCEPT !.ret = 1]
    ELSE IF s.xvid_env = "nocreate" THEN [s EXCEPT !.ret = 0]
    ELSE IF s.xvid_env = "nomem"
         THEN [s EXCEPT !.xvid_handle = NULL,
                        !.g_released = Append(@, "decoder"), !.ret = 0]
    ELSE [s EXCEPT !.xvid_handle = "xvid", !.g_decoders = @ + 1,
                   !.yuv_buffer = "yuv", !.g_buffers = @ + 1,
                   !.xvid_initialized = TRUE, !.ret = 1]

\* g_vols counts the extradata submissions since the file was opened and
\* g_first is what the decoder was given first since then
\* an extradata submission that does not look at the sent flag
xvid_extradata_always(s) ==
    IF s.mpeg4_extradata_size > 0
    THEN [s EXCEPT !.mpeg4_extradata_sent = TRUE,
                   !.g_vols = IF @ < 2 THEN @ + 1 ELSE @,
                   !.g_first = IF @ = "none" THEN "vol" ELSE @]
    ELSE s

xvid_extradata(s) ==
    IF ~s.mpeg4_extradata_sent /\ s.mpeg4_extradata_size > 0
    THEN [s EXCEPT !.mpeg4_extradata_sent = TRUE,
                   !.g_vols = IF @ < 2 THEN @ + 1 ELSE @,
                   !.g_first = IF @ = "none" THEN "vol" ELSE @]
    ELSE s

xvid_frame(s) ==
    [s EXCEPT !.g_first = IF @ = "none" THEN "frame" ELSE @, !.ret = 1]

xvid_ready(s) ==
    IF s.ret = 0 THEN [s EXCEPT !.g_failed = TRUE] ELSE xvid_frame(xvid_extradata(s))

decode_mpeg4_frame(s) == xvid_ready(init_xvid_mpeg4(s))

\* decode_env is the outcome of reading and decoding the payload this step;
\* g_failed tells that a decode of the step returned 0 past its guard
DecodeEnvs == {"ok", "fail"}

decode_single_frame(s, idx) ==
    IF s.video_file = NULL \/ idx >= s.total_frames THEN [s EXCEPT !.ret = 0]
    ELSE IF s.decode_env = "fail"
    THEN [s EXCEPT !.g_decodes = Append(@, idx), !.g_failed = TRUE, !.ret = 0]
    ELSE LET s1 == [s EXCEPT !.g_decodes = Append(@, idx), !.ret = 1]
         IN IF s.video_codec_type = CODEC_TYPE_MPEG4 THEN decode_mpeg4_frame(s1) ELSE s1

\* ------------------------------------------------------------------ seek
RECURSIVE seek_walk(_, _, _, _)
\* the chunk-size walk of the ADPCM (align > 0) and PCM (align = 0) branches
seek_walk(s, target_bytes, bytes_so_far, align) ==
    IF ~(s.audio_chunk_idx < s.total_audio_chunks) THEN s
    ELSE LET sz == audio_sizes(s, s.audio_chunk_idx)
         IN IF bytes_so_far + sz > target_bytes
            THEN LET pos_in_chunk == target_bytes - bytes_so_far
                 IN [s EXCEPT !.audio_chunk_pos =
                                  IF align > 0 THEN (pos_in_chunk \div align) * align
                                  ELSE pos_in_chunk]
            ELSE seek_walk([s EXCEPT !.audio_chunk_idx = s.audio_chunk_idx + 1],
                           target_bytes, bytes_so_far + sz, align)

\* the two clamps of the target
seek_clamp(s, target) ==
    LET t0 == IF target < 0 THEN 0 ELSE target
    IN IF t0 >= s.total_frames THEN s.total_frames - 1 ELSE t0

\* the end of the audio part: MP3 resets its decoder, the others refill
seek_refill(s) ==
    IF s.audio_format = AUDIO_FMT_MP3 THEN mp3_reset(s) ELSE refill_audio_ring(s)

\* the audio cursor seek_to_frame computes for the frame, before the ring is
\* reset and refilled
seek_cursor(s, target_frame) ==
    LET effective_rate == IF s.audio_format = AUDIO_FMT_MP3
                             /\ s.mp3_detected_samplerate > 0
                          THEN s.mp3_detected_samplerate ELSE s.audio_sample_rate
        \* (uint64)target_frame wraps for target_frame = -1
        wrapped == target_frame < 0
        time_samples == IF wrapped THEN 0
                        ELSE (target_frame * effective_rate) \div s.clip_fps
        s2 == [s EXCEPT !.audio_chunk_idx = 0, !.audio_chunk_pos = 0]
        spf == IF effective_rate >= 32000 THEN 1152 ELSE 576
        i0 == time_samples \div spf
        idx == IF i0 >= s.total_audio_chunks THEN s.total_audio_chunks - 1 ELSE i0
        is_adpcm == s.audio_format = AUDIO_FMT_ADPCM
                    /\ s.adpcm_samples_per_block > 0 /\ s.adpcm_block_align > 0
        target_bytes == IF is_adpcm
                        THEN (time_samples \div s.adpcm_samples_per_block)
                             * s.adpcm_block_align
                        ELSE time_samples * s.audio_bytes_per_sample
    IN IF s.audio_format = AUDIO_FMT_MP3
       THEN [s2 EXCEPT !.audio_chunk_idx = idx, !.audio_chunk_pos = 0,
                       !.audio_samples_sent = idx * spf,
                       !.sent_wrapped = FALSE,
                       \* the int the wrapped quotient converts to is not
                       \* modelled
                       !.halted = IF wrapped /\ @ = "no" THEN "ub" ELSE @]
       ELSE [(IF wrapped
              THEN [s2 EXCEPT !.audio_chunk_idx = s.total_audio_chunks]
              ELSE seek_walk(s2, target_bytes, 0,
                             IF is_adpcm THEN s.adpcm_block_align ELSE 0))
             EXCEPT !.audio_samples_sent = time_samples,
                    !.sent_wrapped = wrapped]

\* the audio part of seek_to_frame, with the frame index already set
seek_audio(s, target_frame) ==
    IF ~(s.has_audio /\ s.audio_bytes_per_sample > 0) THEN s
    ELSE seek_refill(ring_reset(seek_cursor(s, target_frame)))

\* the record of a seek: s is the state it started from, r the one it left
seek_done(s, target, r) ==
    [r EXCEPT !.g_seeks = Append(@,
            [target |-> target, total |-> s.total_frames,
             frame |-> r.current_frame_idx,
             repeat_counter |-> r.repeat_counter,
             decoded |-> Len(r.g_decodes) > Len(s.g_decodes)
                         /\ r.g_decodes[Len(r.g_decodes)] = seek_clamp(s, target),
             audio |-> s.has_audio /\ s.audio_bytes_per_sample > 0,
             fmt |-> s.audio_format, fps |-> s.clip_fps,
             chunks |-> s.total_audio_chunks,
             rate |-> IF s.audio_format = AUDIO_FMT_MP3 /\ s.mp3_detected_samplerate > 0
                      THEN s.mp3_detected_samplerate ELSE s.audio_sample_rate,
             sent |-> r.audio_samples_sent, wrapped |-> r.sent_wrapped,
             refills |-> SubSeq(r.g_refills, Len(s.g_refills) + 1, Len(r.g_refills))])]

\* a seek that leaves the player stopped
seek_to_frame_stopping(s, target) ==
    [seek_done(s, target,
        decode_single_frame(
            seek_audio([s EXCEPT !.current_frame_idx = seek_clamp(s, target),
                                 !.repeat_counter = 0],
                       seek_clamp(s, target)),
            seek_clamp(s, target)))
     EXCEPT !.is_playing = FALSE]

seek_to_frame(s, target) ==
    seek_done(s, target,
        decode_single_frame(
            seek_audio([s EXCEPT !.current_frame_idx = seek_clamp(s, target),
                                 !.repeat_counter = 0],
                       seek_clamp(s, target)),
            seek_clamp(s, target)))

\* ------------------------------------------------------------------ container bytes
(* The indexer works on the bytes of the file.  A container image is its   *)
(* byte sequence: "RIFF" size "AVI " "LIST" size "movi", the sub-chunks    *)
(* (id, size, payload, pad byte after an odd payload) and, unless the file *)
(* has none, an "idx1" chunk of 16-byte records (id, flags, offset, size). *)
(* File positions are 0-based as in the code; b[p + 1] is the byte at p.   *)

\* table capacities, 360000 entries each in the source, scaled to the images
MAX_FRAMES == 3
MAX_AUDIO_CHUNKS == 2
MAX_JPEG_SIZE == 65536
\* most sub-chunks in the media-data list of an image
MaxChunks == 5

U32(n) == <<n % 256, (n \div 256) % 256, (n \div 65536) % 256, n \div 16777216>>

read_u32_le(b, p) ==
    b[p + 1] + 256 * b[p + 2] + 65536 * b[p + 3] + 16777216 * b[p + 4]

\* "RIFF", "AVI ", "LIST", "movi", "idx1"
RiffTag == <<82, 73, 70, 70>>
AviTag == <<65, 86, 73, 32>>
ListTag == <<76, 73, 83, 84>>
MoviTag == <<109, 111, 118, 105>>
Idx1Tag == <<105, 100, 120, 49>>

\* sub-chunk ids "00dc", "01wb", "00db", the first two also in upper case
ChunkId(kind, upper) ==
    CASE kind = "dc" -> IF upper THEN <<48, 48, 68, 67>> ELSE <<48, 48, 100, 99>>
      [] kind = "wb" -> IF upper THEN <<48, 49, 87, 66>> ELSE <<48, 49, 119, 98>>
      [] OTHER -> <<48, 48, 100, 98>>

\* a video payload starts with the JPEG start marker FF D8
Payload(kind, n) ==
    [i \in 1 .. n |-> IF kind = "dc" THEN (IF i = 1 THEN 255 ELSE IF i = 2 THEN 216 ELSE 0)
                      ELSE 1]

\* bytes a sub-chunk with an n-byte payload takes in the list
Stride(n) == 8 + n + (n % 2)

RECURSIVE MoviData(_, _, _)
MoviData(kinds, n, upper) ==
    IF kinds = <<>> THEN <<>>
    ELSE ChunkId(Head(kinds), upper) \o U32(n) \o Payload(Head(kinds), n)
         \o (IF n % 2 = 1 THEN <<0>> ELSE <<>>) \o MoviData(Tail(kinds), n, upper)

\* everything before the first sub-chunk
Prefix(movi_len) ==
    RiffTag \o U32(0) \o AviTag \o ListTag \o U32(4 + movi_len) \o MoviTag

(* What an encoder stamps as the offset of the i-th sub-chunk: relative to *)
(* the first sub-chunk ("movi"), to the file start ("abs"), to the 'movi'  *)
(* tag ("movi4"), or pointing at the payload instead of the header         *)
(* ("data"); "junk" is an index whose offsets lie outside the file and     *)
(* "audio" one that lists the audio sub-chunks only.                       *)
Conventions == {"none", "movi", "abs", "movi4", "data", "junk", "audio"}

IndexOffset(conv, i, n) ==
    (i - 1) * Stride(n)
    + (CASE conv = "abs" -> Len(Prefix(0))
         [] conv = "movi4" -> 4
         [] conv = "data" -> 8
         [] conv = "junk" -> 5000
         [] OTHER -> 0)

RECURSIVE Idx1Records(_, _, _, _, _)
Idx1Records(kinds, conv, n, upper, i) ==
    IF i > Len(kinds) THEN <<>>
    ELSE (IF conv = "audio" /\ kinds[i] # "wb" THEN <<>>
          ELSE ChunkId(kinds[i], upper) \o U32(16) \o U32(IndexOffset(conv, i, n)) \o U32(n))
         \o Idx1Records(kinds, conv, n, upper, i + 1)

Idx1Chunk(records) == Idx1Tag \o U32(Len(records)) \o records

Image(kinds, conv, n, upper) ==
    [kinds |-> kinds, conv |-> conv, psize |-> n, upper |-> upper,
     bytes |-> Prefix(Len(MoviData(kinds, n, upper))) \o MoviData(kinds, n, upper)
               \o (IF conv = "none" THEN <<>>
                   ELSE Idx1Chunk(Idx1Records(kinds, conv, n, upper, 1)))]

\* no card image at hand
NoImage == [kinds |-> <<>>, conv |-> "none", psize |-> 0, upper |-> FALSE, bytes |-> <<>>]

KindSeqs == UNION {[1 .. k -> {"dc", "wb", "db"}] : k \in 0 .. MaxChunks}
PayloadSizes == {3, 6}

\* ------------------------------------------------------------------ indexer
(* The chunk tables and the file position while parse_avi runs; `detect'   *)
(* keeps what parse_idx1's base detection found and the probes it made.    *)
NoDetect == [format_found |-> FALSE, offset_base |-> 0, add_header |-> 8, probes |-> <<>>]

EmptyTables ==
    [pos |-> 0, total_frames |-> 0, total_audio_chunks |-> 0,
     frame_offsets |-> <<>>, frame_sizes |-> <<>>,
     audio_offsets |-> <<>>, audio_sizes |-> <<>>,
     found_idx1 |-> FALSE, detect |-> NoDetect, parsed |-> FALSE, ret |-> 0]

\* fread of n bytes at p gets them all
Readable(b, p, n) == p >= 0 /\ p + n <= Len(b)

check4(b, p, tag) == Readable(b, p, 4) /\ SubSeq(b, p + 1, p + 4) = tag

\* c | 0x20
Lower(c) == IF (c \div 32) % 2 = 0 THEN c + 32 ELSE c

check_jpeg_magic(b, offset) ==
    Readable(b, offset, 2) /\ b[offset + 1] = 255 /\ b[offset + 2] = 216

check_chunk_header(b, offset) ==
    IF offset < 0 \/ ~Readable(b, offset, 4) THEN FALSE
    ELSE /\ b[offset + 1] >= 48 /\ b[offset + 1] <= 57
         /\ b[offset + 2] >= 48 /\ b[offset + 2] <= 57
         /\ \/ Lower(b[offset + 3]) = 100 /\ Lower(b[offset + 4]) = 99
            \/ Lower(b[offset + 3]) = 119 /\ Lower(b[offset + 4]) = 98

\* the type test on bytes 2 and 3 of an index record or sub-chunk header at e
IsVideoId(b, e) == b[e + 3] \in {100, 68} /\ b[e + 4] \in {99, 67}
IsAudioId(b, e) == b[e + 3] \in {119, 87} /\ b[e + 4] \in {98, 66}

\* the first video record among the first 100: its position, or -1
RECURSIVE first_video(_, _, _, _)
first_video(b, idx_start, num_entries, i) ==
    IF ~(i < num_entries /\ i < 100) \/ ~Readable(b, idx_start + 16 * i, 16) THEN -1
    ELSE IF IsVideoId(b, idx_start + 16 * i) THEN idx_start + 16 * i
    ELSE first_video(b, idx_start, num_entries, i + 1)

\* the base detection with the absolute candidate tried first
detect_base_absolute_first(b, movi_data_start, first_video_offset) ==
    IF check_chunk_header(b, first_video_offset)
    THEN [format_found |-> TRUE, offset_base |-> 0, add_header |-> 8,
          probes |-> <<"abs">>]
    ELSE IF check_chunk_header(b, movi_data_start + first_video_offset)
    THEN [format_found |-> TRUE, offset_base |-> movi_data_start, add_header |-> 8,
          probes |-> <<"abs", "movi">>]
    ELSE [NoDetect EXCEPT !.probes = <<"abs", "movi">>]

\* the offset-format auto-detection: three header probes, then four JPEG probes
detect_base(b, movi_data_start, first_video_offset) ==
    IF check_chunk_header(b, movi_data_start + first_video_offset)
    THEN [format_found |-> TRUE, offset_base |-> movi_data_start, add_header |-> 8,
          probes |-> <<"movi">>]
    ELSE IF check_chunk_header(b, first_video_offset)
    THEN [format_found |-> TRUE, offset_base |-> 0, add_header |-> 8,
          probes |-> <<"movi", "abs">>]
    ELSE IF check_chunk_header(b, movi_data_start - 4 + first_video_offset)
    THEN [format_found |-> TRUE, offset_base |-> movi_data_start - 4, add_header |-> 8,
          probes |-> <<"movi", "abs", "movi4">>]
    ELSE IF check_jpeg_magic(b, movi_data_start + first_video_offset + 8)
    THEN [format_found |-> TRUE, offset_base |-> movi_data_start, add_header |-> 8,
          probes |-> <<"movi", "abs", "movi4", "jpeg4">>]
    ELSE IF check_jpeg_magic(b, movi_data_start + first_video_offset)
    THEN [format_found |-> TRUE, offset_base |-> movi_data_start, add_header |-> 0,
          probes |-> <<"movi", "abs", "movi4", "jpeg4", "jpeg5">>]
    ELSE IF check_jpeg_magic(b, first_video_offset + 8)
    THEN [format_found |-> TRUE, offset_base |-> 0, add_header |-> 8,
          probes |-> <<"movi", "abs", "movi4", "jpeg4", "jpeg5", "jpeg6">>]
    ELSE IF check_jpeg_magic(b, first_video_offset)
    THEN [format_found |-> TRUE, offset_base |-> 0, add_header |-> 0,
          probes |-> <<"movi", "abs", "movi4", "jpeg4", "jpeg5", "jpeg6", "jpeg7">>]
    ELSE [NoDetect EXCEPT !.probes =
              <<"movi", "abs", "movi4", "jpeg4", "jpeg5", "jpeg6", "jpeg7">>]

\* an index record stored without looking at the table capacities
idx1_entry_uncapped(b, T, e) ==
    IF IsVideoId(b, e)
    THEN [T EXCEPT !.frame_offsets = Append(@, T.detect.offset_base + read_u32_le(b, e + 8)
                                               + T.detect.add_header),
                   !.frame_sizes = Append(@, read_u32_le(b, e + 12)),
                   !.total_frames = @ + 1]
    ELSE T

\* one index record, at position e, into the tables
idx1_entry(b, T, e) ==
    IF IsVideoId(b, e)
    THEN IF T.total_frames < MAX_FRAMES
         THEN [T EXCEPT !.frame_offsets = Append(@, T.detect.offset_base
                                                    + read_u32_le(b, e + 8)
                                                    + T.detect.add_header),
                        !.frame_sizes = Append(@, read_u32_le(b, e + 12)),
                        !.total_frames = @ + 1]
         ELSE T
    ELSE IF IsAudioId(b, e)
    THEN IF T.total_audio_chunks < MAX_AUDIO_CHUNKS
         THEN [T EXCEPT !.audio_offsets = Append(@, T.detect.offset_base
                                                    + read_u32_le(b, e + 8)
                                                    + T.detect.add_header),
                        !.audio_sizes = Append(@, read_u32_le(b, e + 12)),
                        !.total_audio_chunks = @ + 1]
         ELSE T
    ELSE T

\* the records of one block read into jpeg_buffer, starting at file position p
RECURSIVE idx1_block(_, _, _, _, _)
idx1_block(b, T, p, i, got) ==
    IF ~(i < got) THEN T
    ELSE idx1_block(b, idx1_entry(b, T, p + 16 * i), p, i + 1, got)

\* the block loop; T.pos is the file position
RECURSIVE idx1_blocks(_, _, _, _)
idx1_blocks(b, T, num_entries, entries_done) ==
    IF ~(entries_done < num_entries) THEN T
    ELSE LET to_read == Min(num_entries - entries_done, MAX_JPEG_SIZE \div 16)
             got == Min(to_read, IF T.pos >= Len(b) THEN 0 ELSE (Len(b) - T.pos) \div 16)
         IN IF got = 0 THEN T
            ELSE idx1_blocks(b, [idx1_block(b, T, T.pos, 0, got) EXCEPT !.pos = @ + 16 * got],
                             num_entries, entries_done + got)

\* parse_idx1 once the format is detected; T.pos is idx_start
idx1_detected(b, T, num_entries) ==
    IF ~T.detect.format_found THEN [T EXCEPT !.found_idx1 = FALSE]
    ELSE [idx1_blocks(b, T, num_entries, 0) EXCEPT !.found_idx1 = TRUE]

\* parse_idx1 at the idx1 chunk; T.pos is idx_start and fv the position of
\* the first video record
idx1_found(b, T, movi_data_start, num_entries, fv) ==
    IF fv < 0 THEN [T EXCEPT !.found_idx1 = FALSE]
    ELSE idx1_detected(b,
             [T EXCEPT !.detect = detect_base(b, movi_data_start, read_u32_le(b, fv + 8))],
             num_entries)

\* the search for the idx1 chunk from the file position on
RECURSIVE parse_idx1(_, _, _)
parse_idx1(b, T, movi_data_start) ==
    IF ~Readable(b, T.pos, 8) THEN [T EXCEPT !.found_idx1 = FALSE]
    ELSE IF SubSeq(b, T.pos + 1, T.pos + 4) = Idx1Tag
    THEN idx1_found(b, [T EXCEPT !.pos = @ + 8], movi_data_start,
                    read_u32_le(b, T.pos + 4) \div 16,
                    first_video(b, T.pos + 8, read_u32_le(b, T.pos + 4) \div 16, 0))
    ELSE parse_idx1(b, [T EXCEPT !.pos = @ + 8 + read_u32_le(b, T.pos + 4)
                                          + (read_u32_le(b, T.pos + 4) % 2)],
                    movi_data_start)

\* one sub-chunk header at T.pos into the tables
scan_chunk(b, T) ==
    IF IsVideoId(b, T.pos)
    THEN [T EXCEPT !.frame_offsets = Append(@, T.pos + 8),
                   !.frame_sizes = Append(@, read_u32_le(b, T.pos + 4)),
                   !.total_frames = @ + 1]
    ELSE IF IsAudioId(b, T.pos) /\ T.total_audio_chunks < MAX_AUDIO_CHUNKS
    THEN [T EXCEPT !.audio_offsets = Append(@, T.pos + 8),
                   !.audio_sizes = Append(@, read_u32_le(b, T.pos + 4)),
                   !.total_audio_chunks = @ + 1]
    ELSE T

RECURSIVE scan_loop(_, _, _)
scan_loop(b, T, movi_end) ==
    IF ~(T.pos < movi_end /\ T.total_frames < MAX_FRAMES) \/ ~Readable(b, T.pos, 8) THEN T
    ELSE scan_loop(b, [scan_chunk(b, T) EXCEPT !.pos = @ + 8 + read_u32_le(b, T.pos + 4)
                                                      + (read_u32_le(b, T.pos + 4) % 2)],
                   movi_end)

scan_movi_buffered(b, T, movi_start, movi_end) ==
    scan_loop(b, [T EXCEPT !.pos = movi_start], movi_end)

\* the movi branch with the fallback left out
index_or_scan_no_fallback(b, T, movi_start, movi_end) == T

\* the movi branch after parse_idx1
index_or_scan(b, T, movi_start, movi_end) ==
    IF T.found_idx1 THEN T ELSE scan_movi_buffered(b, T, movi_start, movi_end)

\* the movi branch: T.pos is movi_start
movi_list(b, T, chunk_size) ==
    index_or_scan(b, parse_idx1(b, [T EXCEPT !.pos = @ + chunk_size - 4], T.pos),
                  T.pos, T.pos + chunk_size - 4)

(* parse_avi's walk over the top-level chunks up to the media-data list;   *)
(* a header list is passed over here (what it holds is parse_avi's part).  *)
RECURSIVE avi_chunks(_, _)
avi_chunks(b, T) ==
    IF ~Readable(b, T.pos, 8) THEN T
    ELSE IF SubSeq(b, T.pos + 1, T.pos + 4) = ListTag
    THEN IF ~Readable(b, T.pos + 8, 4) THEN T
         ELSE IF SubSeq(b, T.pos + 9, T.pos + 12) = MoviTag
         THEN movi_list(b, [T EXCEPT !.pos = @ + 12], read_u32_le(b, T.pos + 4))
         ELSE avi_chunks(b, [T EXCEPT !.pos = @ + 12 + read_u32_le(b, T.pos + 4) - 4])
    ELSE avi_chunks(b, [T EXCEPT !.pos = @ + 8 + read_u32_le(b, T.pos + 4)
                                         + (read_u32_le(b, T.pos + 4) % 2)])

\* parse_avi's return value
index_result(T) == [T EXCEPT !.parsed = TRUE, !.ret = IF T.total_frames > 0 THEN 1 ELSE 0]

\* parse_avi on the bytes: signature, tables, total_frames > 0
index_container(b) ==
    IF ~check4(b, 0, RiffTag) \/ ~Readable(b, 4, 4) \/ ~check4(b, 8, AviTag)
    THEN [EmptyTables EXCEPT !.parsed = TRUE, !.ret = 0]
    ELSE index_result(avi_chunks(b, [EmptyTables EXCEPT !.pos = 12]))

\* ------------------------------------------------------------------ open
\* MJPG JPEG AVRN DMB1 MJLS
MjpegFourccs == {<<77, 74, 80, 71>>, <<74, 80, 69, 71>>, <<65, 86, 82, 78>>,
                 <<68, 77, 66, 49>>, <<77, 74, 76, 83>>}
\* XVID DIVX DX50 FMP4 MP4V MP4S M4S2 3IV2 BLZ0
Mpeg4Fourccs == {<<88, 86, 73, 68>>, <<68, 73, 86, 88>>, <<68, 88, 53, 48>>,
                 <<70, 77, 80, 52>>, <<77, 80, 52, 86>>, <<77, 80, 52, 83>>,
                 <<77, 52, 83, 50>>, <<51, 73, 86, 50>>, <<66, 76, 90, 48>>}

\* fc[i] of the classification: 'a'..'z' less 32
to_upper(c) == IF c >= 97 /\ c <= 122 THEN c - 32 ELSE c

\* a classification that compares the fourcc as stored
classify_fourcc_exact(video_fourcc) ==
    IF video_fourcc[1] # 0 /\ video_fourcc \in Mpeg4Fourccs
    THEN CODEC_TYPE_MPEG4 ELSE CODEC_TYPE_MJPEG

\* the codec family of video_fourcc
classify_fourcc(video_fourcc) ==
    IF video_fourcc[1] # 0
    THEN IF <<to_upper(video_fourcc[1]), to_upper(video_fourcc[2]),
              to_upper(video_fourcc[3]), to_upper(video_fourcc[4])>> \in MjpegFourccs
         THEN CODEC_TYPE_MJPEG
         ELSE IF <<to_upper(video_fourcc[1]), to_upper(video_fourcc[2]),
                   to_upper(video_fourcc[3]), to_upper(video_fourcc[4])>> \in Mpeg4Fourccs
         THEN CODEC_TYPE_MPEG4
         ELSE CODEC_TYPE_MJPEG
    ELSE CODEC_TYPE_MJPEG

\* video_fourcc after the header walk: the video stream's fccHandler, or
\* biCompression of its format block when that starts with 0 or a blank
stream_fourcc(h) ==
    IF ~h.vids THEN NoFourcc
    ELSE IF h.handler[1] = 0 \/ h.handler[1] = 32 THEN h.compression
    ELSE h.handler

\* what a parse has made of the codec fields
NoCodec == [parsed |-> FALSE, video_fourcc |-> NoFourcc,
            video_codec_type |-> CODEC_TYPE_UNKNOWN]

\* parse_avi on a header h, as far as the codec fields go
parse_codec(h, c) ==
    IF ~h.sig THEN [c EXCEPT !.parsed = TRUE]
    ELSE [parsed |-> TRUE, video_fourcc |-> stream_fourcc(h),
          video_codec_type |-> classify_fourcc(stream_fourcc(h))]

\* either case of a letter
BothCases(c) == IF c >= 65 /\ c <= 90 THEN {c, c + 32} ELSE {c}
CaseVariants(f) ==
    {<<a, b, c, d>> : a \in BothCases(f[1]), b \in BothCases(f[2]),
                      c \in BothCases(f[3]), d \in BothCases(f[4])}

\* the headers handed to the classification: signature good or bad, with
\* or without a video stream, every spelling of the listed fourccs and of
\* ZZZZ, an empty and a blank handler
Handlers ==
    UNION {CaseVariants(f) : f \in MjpegFourccs \cup Mpeg4Fourccs \cup {<<90, 90, 90, 90>>}}
    \cup {NoFourcc, <<32, 32, 32, 32>>}
Compressions == {NoFourcc, FccXVID, <<109, 106, 112, 103>>}
NoHeader == [sig |-> FALSE, vids |-> FALSE, handler |-> NoFourcc,
             compression |-> NoFourcc, set |-> FALSE]

\* a parse that keeps the audio stream whatever its sample rate
audio_rate_policy_keep(c, rate) == c

\* audio above 44 kHz is dropped: has_audio = 0, audio_format = 0
audio_rate_policy(c, rate) ==
    IF rate >= 44000 THEN [c EXCEPT !.has_audio = FALSE, !.audio_format = 0] ELSE c

\* the bytes after the 40-byte BITMAPINFOHEADER are kept if they fit
strf_extradata(extradata_len) ==
    IF extradata_len > 0 /\ extradata_len <= MAX_EXTRADATA_SIZE THEN extradata_len ELSE 0

\* a frame rate taken as the quotient whatever it is
avih_fps_unclamped(us_per_frame, clip_fps) ==
    IF us_per_frame > 0 THEN 1000000 \div us_per_frame ELSE clip_fps

\* avih: the frame rate from the 32-bit microseconds per frame, at least 1;
\* a frame time of 0 leaves the rate as it is
avih_fps(us_per_frame, clip_fps) ==
    IF us_per_frame > 0
    THEN IF 1000000 \div us_per_frame = 0 THEN 1 ELSE 1000000 \div us_per_frame
    ELSE clip_fps

(* parse_avi on the file just opened.  The header walk is summarised by    *)
(* what it extracts: avih's frame time, the audio strf block, the video    *)
(* fourcc and extradata, and the chunk tables (`index' names the file they *)
(* were built from).  ret is total_frames > 0.                             *)
parse_avi(s) ==
    LET f == disk[s.video_file]
    IN IF ~f.sig THEN [s EXCEPT !.ret = 0]
       ELSE
       LET s1 == [s EXCEPT !.total_frames = 0, !.total_audio_chunks = 0,
                           !.clip_fps = 30, !.repeat_count = 1,
                           !.has_audio = FALSE, !.audio_format = 0,
                           !.adpcm_block_align = 0, !.adpcm_samples_per_block = 0,
                           !.video_codec_type = CODEC_TYPE_UNKNOWN,
                           !.mpeg4_extradata_size = 0, !.mpeg4_extradata_sent = FALSE]
           \* avih
           fps == avih_fps(f.usec, s1.clip_fps)
           s2 == [s1 EXCEPT !.clip_fps = fps,
                            !.repeat_count = IF fps >= 25 THEN 1
                                             ELSE IF fps >= 12 THEN 2 ELSE 3]
           \* audio strf
           a == f.strf
           s3 == IF a.strf_size < 16 THEN s2
                 ELSE
                 LET b == [s2 EXCEPT !.audio_channels = a.channels,
                                     !.audio_sample_rate = a.rate,
                                     !.adpcm_block_align = a.block_align,
                                     !.audio_bits = a.bits]
                     ok == a.channels > 0 /\ a.rate > 0
                     c == IF a.fmt = 1 /\ ok
                          THEN [b EXCEPT !.has_audio = TRUE, !.audio_format = AUDIO_FMT_PCM,
                                         !.audio_bytes_per_sample =
                                             (a.bits \div 8) * a.channels]
                          ELSE IF a.fmt = 2 /\ ok
                          THEN [b EXCEPT !.has_audio = TRUE, !.audio_format = AUDIO_FMT_ADPCM,
                                         !.audio_bytes_per_sample = 2 * a.channels,
                                         !.adpcm_samples_per_block =
                                             IF a.strf_size >= 20 THEN a.spb
                                             ELSE 2 + ((a.block_align
                                                        - (IF a.channels = 1 THEN 7 ELSE 14))
                                                       * 2) \div a.channels]
                          ELSE IF a.fmt = 85 /\ ok
                          THEN [b EXCEPT !.has_audio = TRUE, !.audio_format = AUDIO_FMT_MP3,
                                         !.audio_bytes_per_sample = 4]
                          ELSE b
                 IN audio_rate_policy(c, a.rate)
           \* video strf, movi / idx1
           s4 == [s3 EXCEPT !.mpeg4_extradata_size = strf_extradata(f.extra),
                            !.total_frames = f.nframes,
                            !.total_audio_chunks = f.nchunks,
                            !.index = s.video_file]
           s5 == [s4 EXCEPT !.video_codec_type = classify_fourcc(f.fourcc)]
       IN [s5 EXCEPT !.ret = IF s5.total_frames > 0 THEN 1 ELSE 0]

\* open_video after the pre-fill: decode the first frame unless MPEG-4
open_video_start(s) ==
    [(IF s.video_codec_type # CODEC_TYPE_MPEG4 THEN decode_single_frame(s, 0) ELSE s)
     EXCEPT !.is_playing = TRUE, !.ret = 1, !.g_open = "ok"]

\* an open that does not look at what parse_avi returned
open_video_parsed_unchecked(s) ==
    open_video_start(refill_audio_ring(
        [mp3_reset(ring_reset(
             [s EXCEPT !.current_frame_idx = 0,
                       !.audio_chunk_idx = 0, !.audio_chunk_pos = 0,
                       !.audio_samples_sent = 0, !.sent_wrapped = FALSE]))
         EXCEPT !.mp3_detected_samplerate = 0, !.mp3_detected_channels = 0,
                !.repeat_counter = 0]))

\* open_video after parse_avi, whose result is s.ret
open_video_parsed(s) ==
    IF s.ret = 0 THEN [s EXCEPT !.video_file = NULL, !.ret = 0, !.g_open = "fail"]
    ELSE open_video_start(refill_audio_ring(
             [mp3_reset(ring_reset(
                  [s EXCEPT !.current_frame_idx = 0,
                            !.audio_chunk_idx = 0, !.audio_chunk_pos = 0,
                            !.audio_samples_sent = 0, !.sent_wrapped = FALSE]))
              EXCEPT !.mp3_detected_samplerate = 0, !.mp3_detected_channels = 0,
                     !.repeat_counter = 0]))

\* open_video starts by closing the decoder of the previous file
open_video_closed(s) == [close_xvid(s) EXCEPT !.g_vols = 0, !.g_first = "none"]

open_video(s, path) ==
    \* fclose the old file, fopen the new one
    IF ~disk[path].exists
    THEN [open_video_closed(s) EXCEPT !.video_file = NULL, !.ret = 0, !.g_open = "fail"]
    ELSE open_video_parsed(parse_avi([open_video_closed(s) EXCEPT !.video_file = path]))

load_avi_file(s, path) ==
    [open_video(s, path) EXCEPT !.ret = IF @ # 0 THEN 0 ELSE -1]

\* ------------------------------------------------------------------ file browser
FB_START_PATH == "/mnt/sda1/VIDEOS"
FB_ROOT == "/mnt/sda1"

(* The directory listing fs_readdir yields: the card holds one directory,  *)
(* VIDEOS, with the .avi files Card; ".." leads every listing but the    *)
(* root's.  An entry is [name, is_dir].  "/mnt" cannot be opened.          *)
Card == <<"xvid", "badsig", "stub30">>

Listing(s, path) ==
    IF path = FB_START_PATH
    THEN <<[name |-> "..", is_dir |-> TRUE]>>
         \o [i \in 1..Len(Card) |-> [name |-> Card[i], is_dir |-> FALSE]]
    ELSE <<[name |-> "VIDEOS", is_dir |-> TRUE]>>

\* strrchr(path, '/') cut: the parent directory, "" when the slash is the first
Parent(path) == IF path = FB_START_PATH THEN FB_ROOT
                ELSE IF path = FB_ROOT THEN "/mnt" ELSE ""

fb_scan_directory(s) ==
    LET p == IF s.fb_current_path \in {FB_START_PATH, FB_ROOT}
             THEN s.fb_current_path ELSE FB_ROOT
    IN [s EXCEPT !.fb_selection = 0, !.fb_current_path = p,
                 !.fb_file_count = Len(Listing(s, p))]

\* after load_avi_file: a file that opened closes the browser and the menu
fb_loaded(s) ==
    IF s.ret = 0
    THEN [s EXCEPT !.file_browser_active = FALSE, !.menu_active = FALSE,
                   !.no_file_loaded = FALSE, !.is_paused = FALSE]
    ELSE s

fb_enter_selected(s) ==
    IF s.fb_file_count = 0 THEN s
    ELSE LET e == Listing(s, s.fb_current_path)[s.fb_selection + 1]
         IN IF e.is_dir
            THEN IF e.name = ".."
                 THEN fb_scan_directory(
                          [s EXCEPT !.fb_current_path =
                               IF Parent(@) # "" THEN Parent(@) ELSE @])
                 ELSE fb_scan_directory(
                          [s EXCEPT !.fb_current_path = FB_START_PATH])
            ELSE fb_loaded(load_avi_file(s, e.name))

\* ------------------------------------------------------------------ retro_run
\* decode_single_frame(current_frame_idx), the redraw behind the menu
redraw(s) == decode_single_frame(s, s.current_frame_idx)

\* closing the menu restores the pause state it found
menu_closed(s) == [s EXCEPT !.is_paused = s.was_paused_before_menu]

\* START pressed: toggle the menu
start_pressed(s) ==
    IF s.menu_active
    THEN menu_closed(redraw([s EXCEPT !.menu_active = FALSE,
                                      !.color_submenu_active = FALSE,
                                      !.submenu_active = 0,
                                      !.file_browser_active = FALSE]))
    ELSE [s EXCEPT !.menu_active = TRUE,
                   !.was_paused_before_menu = s.is_paused,
                   !.is_paused = TRUE,
                   !.seek_position =
                       IF s.total_frames > 0
                       THEN Min((s.current_frame_idx * 20) \div s.total_frames, 20)
                       ELSE @]

\* one key of the colour-mode picker: move and redraw
color_key(s, pressed) == IF pressed THEN redraw(s) ELSE s

\* the scrollable colour-mode picker
color_submenu(s, E) ==
    IF "A" \in E \/ "B" \in E
    THEN [color_key(color_key(s, "UP" \in E), "DOWN" \in E)
          EXCEPT !.color_submenu_active = FALSE]
    ELSE color_key(color_key(s, "UP" \in E), "DOWN" \in E)

fb_up(s, E) ==
    IF "UP" \in E /\ s.fb_selection > 0 THEN [s EXCEPT !.fb_selection = @ - 1] ELSE s

fb_down(s, E) ==
    IF "DOWN" \in E /\ s.fb_selection < s.fb_file_count - 1
    THEN [s EXCEPT !.fb_selection = @ + 1] ELSE s

fb_a(s, E) == IF "A" \in E THEN fb_enter_selected(s) ELSE s

fb_b(s, E) ==
    IF "B" \in E
    THEN IF Parent(s.fb_current_path) # ""
         THEN fb_scan_directory([s EXCEPT !.fb_current_path = Parent(@),
                                          !.fb_selection = 0])
         ELSE [s EXCEPT !.file_browser_active = FALSE]
    ELSE s

file_browser(s, E) == fb_b(fb_a(fb_down(fb_up(s, E), E), E), E)

\* Left/Right on the Go to Position slider
slider_step(s, d) ==
    redraw(seek_to_frame([s EXCEPT !.seek_position = @ + d],
                         IF s.total_frames > 0
                         THEN ((s.seek_position + d) * s.total_frames) \div 20 ELSE 0))

menu_action(s) ==
    CASE s.menu_selection = 0 ->
             fb_scan_directory([s EXCEPT !.file_browser_active = TRUE])
      [] s.menu_selection = 1 ->
             [s EXCEPT !.is_paused = s.was_paused_before_menu, !.menu_active = FALSE]
      [] s.menu_selection = 2 -> [s EXCEPT !.color_submenu_active = TRUE]
      [] s.menu_selection = 3 -> redraw(s)
      [] s.menu_selection = 4 ->
             redraw([s EXCEPT !.is_paused = FALSE,
                              !.was_paused_before_menu = FALSE,
                              !.menu_active = FALSE])
      [] s.menu_selection = 7 ->
             [seek_to_frame(s, 0) EXCEPT !.is_paused = FALSE,
                                         !.was_paused_before_menu = FALSE,
                                         !.menu_active = FALSE]
      [] s.menu_selection = 9 -> [s EXCEPT !.submenu_active = 1]
      [] s.menu_selection = 10 -> [s EXCEPT !.submenu_active = 2]
      [] OTHER -> s

menu_up(s, E) ==
    IF "UP" \in E
    THEN [s EXCEPT !.menu_selection = (@ - 1 + MENU_ITEMS) % MENU_ITEMS] ELSE s

menu_down(s, E) ==
    IF "DOWN" \in E THEN [s EXCEPT !.menu_selection = (@ + 1) % MENU_ITEMS] ELSE s

\* L/R on Color Mode cycle the mode and redraw
menu_lr(s, E) ==
    IF ("L" \in E \/ "R" \in E) /\ s.menu_selection = 2 THEN redraw(s) ELSE s

\* LEFT (d = -1) and RIGHT (d = 1) on Go to Position
menu_slider(s, E, d) ==
    IF s.menu_selection = 1
       /\ (IF d < 0 THEN "LEFT" \in E /\ s.seek_position > 0
                    ELSE "RIGHT" \in E /\ s.seek_position < 20)
    THEN slider_step(s, d)
    ELSE s

menu_a(s, E) == IF "A" \in E THEN menu_action(s) ELSE s

main_menu(s, E) ==
    menu_a(menu_slider(menu_slider(menu_lr(menu_down(menu_up(s, E), E), E), E, -1),
                       E, 1), E)

\* LEFT, RIGHT, UP and DOWN in turn: each seeks by its own step unless paused
RECURSIVE seek_keys(_, _, _)
seek_keys(s, E, keys) ==
    IF keys = <<>> THEN s
    ELSE seek_keys(IF keys[1].key \in E /\ ~s.is_paused
                   THEN seek_to_frame(s, s.current_frame_idx + keys[1].secs * s.clip_fps)
                   ELSE s,
                   E, Tail(keys))

\* normal controls when the menu is closed
normal_controls(s, E) ==
    seek_keys(IF "A" \in E THEN [s EXCEPT !.is_paused = ~@] ELSE s, E,
              <<[key |-> "LEFT", secs |-> -15], [key |-> "RIGHT", secs |-> 15],
                [key |-> "UP", secs |-> 60], [key |-> "DOWN", secs |-> -60]>>)

\* L+R held for LOCK_HOLD_FRAMES ticks toggles the key lock
\* a hold counter that survives the release of a shoulder button
key_lock_cumulative(s, cur) ==
    IF "L" \in cur /\ "R" \in cur
    THEN IF s.lock_hold_counter + 1 >= LOCK_HOLD_FRAMES
         THEN [s EXCEPT !.is_locked = ~@, !.lock_hold_counter = 0]
         ELSE [s EXCEPT !.lock_hold_counter = @ + 1]
    ELSE s

key_lock(s, cur) ==
    IF "L" \in cur /\ "R" \in cur
    THEN IF s.lock_hold_counter + 1 >= LOCK_HOLD_FRAMES
         THEN [s EXCEPT !.is_locked = ~@, !.lock_hold_counter = 0]
         ELSE [s EXCEPT !.lock_hold_counter = @ + 1]
    ELSE [s EXCEPT !.lock_hold_counter = 0]

\* the controls proper, when the keys are not locked
controls(s, E) ==
    IF s.menu_active
    THEN IF s.color_submenu_active THEN color_submenu(s, E)
         ELSE IF s.file_browser_active THEN file_browser(s, E)
         ELSE IF s.submenu_active > 0
         THEN (IF "A" \in E THEN [s EXCEPT !.submenu_active = 0] ELSE s)
         ELSE main_menu(s, E)
    ELSE normal_controls(s, E)

\* everything behind the key lock, E being the buttons newly pressed
unlocked(s, E) ==
    IF s.is_locked THEN s
    ELSE IF "START" \in E THEN controls(start_pressed(s), E)
    ELSE controls(s, E)

\* the input half of retro_run; cur is the set of buttons held this tick
handle_input(s, cur) ==
    [unlocked(key_lock(s, cur), cur \ s.prev) EXCEPT !.prev = cur]

\* a new source frame is decoded when the repeat counter is at 0
tick_decode(s) ==
    IF s.repeat_counter = 0 /\ s.current_frame_idx < s.total_frames
    THEN decode_single_frame(s, s.current_frame_idx) ELSE s

\* a tick that holds the frame when its decode failed
tick_advance_unless_failed(s) ==
    IF s.g_failed THEN s
    ELSE IF s.repeat_counter + 1 >= s.repeat_count
    THEN [s EXCEPT !.repeat_counter = 0, !.current_frame_idx = @ + 1]
    ELSE [s EXCEPT !.repeat_counter = @ + 1]

tick_advance(s) ==
    IF s.repeat_counter + 1 >= s.repeat_count
    THEN [s EXCEPT !.repeat_counter = 0, !.current_frame_idx = @ + 1]
    ELSE [s EXCEPT !.repeat_counter = @ + 1]

\* a loop that waits until the cursor has gone past total_frames
tick_loop_late(s) ==
    IF s.current_frame_idx > s.total_frames
    THEN [refill_audio_ring(
              [mp3_reset(ring_reset(
                   [s EXCEPT !.current_frame_idx = 0,
                             !.audio_chunk_idx = 0, !.audio_chunk_pos = 0,
                             !.audio_samples_sent = 0, !.sent_wrapped = FALSE]))
               EXCEPT !.repeat_counter = 0])
          EXCEPT !.g_looped = TRUE]
    ELSE s

\* loop when finished
tick_loop(s) ==
    IF s.current_frame_idx >= s.total_frames
    THEN [refill_audio_ring(
              [mp3_reset(ring_reset(
                   [s EXCEPT !.current_frame_idx = 0,
                             !.audio_chunk_idx = 0, !.audio_chunk_pos = 0,
                             !.audio_samples_sent = 0, !.sent_wrapped = FALSE]))
               EXCEPT !.repeat_counter = 0])
          EXCEPT !.g_looped = TRUE]
    ELSE s

\* a playback half that runs whatever the pause flag says
playback_when_paused(s) ==
    IF ~s.is_playing THEN s
    ELSE tick_loop(play_audio_for_frame(tick_advance(tick_decode(
             [s EXCEPT !.g_ticked = TRUE]))))

\* the playback half of retro_run
playback(s) ==
    IF ~(s.is_playing /\ ~s.is_paused) THEN s
    ELSE tick_loop(play_audio_for_frame(tick_advance(tick_decode(
             [s EXCEPT !.g_ticked = TRUE]))))

retro_run(s, cur) == playback(handle_input(s, cur))

retro_reset(s) ==
    [mp3_reset(ring_reset([s EXCEPT !.current_frame_idx = 0,
                                    !.audio_chunk_idx = 0, !.audio_chunk_pos = 0,
                                    !.audio_samples_sent = 0, !.sent_wrapped = FALSE]))
     EXCEPT !.repeat_counter = 0]

\* retro_load_game after open_video: no_file_loaded records a failure
load_game_opened(s) == [s EXCEPT !.no_file_loaded = (s.ret = 0)]

\* path = NULL: the frontend started the core without content
retro_load_game(s, path) ==
    IF path # NULL
    THEN load_game_opened(open_video(s, path))
    ELSE [s EXCEPT !.no_file_loaded = TRUE, !.is_paused = TRUE]

\* the stream is closed and the pointer kept
retro_deinit(s) == close_xvid(s)

retro_unload_game(s) ==
    [close_xvid(s) EXCEPT !.video_file = NULL, !.is_playing = FALSE]

\* ------------------------------------------------------------------ state
(* The program's globals under their own names; `index' names the file the *)
(* chunk tables were built from and `mp3_src' the file whose bytes sit in   *)
(* the MP3 staging buffer; `prev' is the set of buttons held at the last   *)
(* tick (prev_a .. prev_r).  `host' is the frontend's position in the      *)
(* libretro life cycle and `halted' a program that has stopped running.    *)
(* History variables, named g_..: bytes written to and read from the ring  *)
(* since it was last emptied, and, for the last step, the refill calls,    *)
(* the frames decoded, the seeks, the samples delivered and due, whether   *)
(* the loop branch was taken, how an open ended, whether the playback      *)
(* block ran, and which entry point ran.                                   *)
VARIABLES
    video_file, index, is_playing, is_paused, no_file_loaded, total_frames,
    total_audio_chunks, clip_fps, repeat_count, repeat_counter,
    current_frame_idx, audio_chunk_idx, audio_chunk_pos,
    audio_samples_sent, sent_wrapped, aring_read, aring_write, aring_count,
    audio_format, audio_channels, audio_sample_rate, audio_bits,
    audio_bytes_per_sample, has_audio, adpcm_block_align,
    adpcm_samples_per_block, mp3_initialized, mp3_input_len,
    mp3_input_remaining, mp3_src, mp3_detected_samplerate,
    mp3_detected_channels, video_codec_type, xvid_initialized,
    mpeg4_extradata_size, mpeg4_extradata_sent, xvid_handle, yuv_buffer,
    g_decoders, g_buffers, g_released, g_vols, g_first, g_failed, g_clock, g_errors,
    g_skipped, menu_active,
    menu_selection, seek_position, was_paused_before_menu, submenu_active,
    color_submenu_active, file_browser_active, fb_current_path,
    fb_file_count, fb_selection, prev, is_locked, lock_hold_counter,
    halted, g_written, g_consumed, g_refills, g_decodes, g_seeks, g_sent, g_due,
    g_looped, g_open, g_ticked, host, g_op

\* the container image handed to the indexer and the tables it built
VARIABLES image, tables

\* the stream header handed to the codec classification, and its outcome
VARIABLES header, codec

player == <<disk, video_file, index, is_playing, is_paused, no_file_loaded,
         total_frames, total_audio_chunks, clip_fps, repeat_count,
         repeat_counter, current_frame_idx, audio_chunk_idx,
         audio_chunk_pos, audio_samples_sent, sent_wrapped, aring_read,
         aring_write, aring_count, audio_format, audio_channels,
         audio_sample_rate, audio_bits, audio_bytes_per_sample, has_audio,
         adpcm_block_align, adpcm_samples_per_block, mp3_initialized,
         mp3_input_len, mp3_input_remaining, mp3_src,
         mp3_detected_samplerate, mp3_detected_channels, video_codec_type,
         xvid_initialized, mpeg4_extradata_size, mpeg4_extradata_sent,
         xvid_handle, yuv_buffer, g_decoders, g_buffers, g_released, g_vols,
         g_first, g_failed, g_clock, g_errors, g_skipped,
         menu_active, menu_selection, seek_position,
         was_paused_before_menu, submenu_active, color_submenu_active,
         file_browser_active, fb_current_path, fb_file_count, fb_selection,
         prev, is_locked, lock_hold_counter, halted, g_written, g_consumed,
         g_refills, g_decodes, g_seeks, g_sent, g_due, g_looped, g_open, g_ticked,
         host, g_op>>

vars == <<player, image, tables, header, codec>>

\* the audio batch callback is registered before retro_init
Cur(nio) ==
    [ret |-> 0, nullio |-> nio, audio_batch_cb |-> TRUE,
     video_file |-> video_file,
     index |-> index,
     is_playing |-> is_playing,
     is_paused |-> is_paused,
     no_file_loaded |-> no_file_loaded,
     total_frames |-> total_frames,
     total_audio_chunks |-> total_audio_chunks,
     clip_fps |-> clip_fps,
     repeat_count |-> repeat_count,
     repeat_counter |-> repeat_counter,
     current_frame_idx |-> current_frame_idx,
     audio_chunk_idx |-> audio_chunk_idx,
     audio_chunk_pos |-> audio_chunk_pos,
     audio_samples_sent |-> audio_samples_sent,
     sent_wrapped |-> sent_wrapped,
     aring_read |-> aring_read,
     aring_write |-> aring_write,
     aring_count |-> aring_count,
     audio_format |-> audio_format,
     audio_channels |-> audio_channels,
     audio_sample_rate |-> audio_sample_rate,
     audio_bits |-> audio_bits,
     audio_bytes_per_sample |-> audio_bytes_per_sample,
     has_audio |-> has_audio,
     adpcm_block_align |-> adpcm_block_align,
     adpcm_samples_per_block |-> adpcm_samples_per_block,
     mp3_initialized |-> mp3_initialized,
     mp3_input_len |-> mp3_input_len,
     mp3_input_remaining |-> mp3_input_remaining,
     mp3_src |-> mp3_src,
     mp3_detected_samplerate |-> mp3_detected_samplerate,
     mp3_detected_channels |-> mp3_detected_channels,
     video_codec_type |-> video_codec_type,
     xvid_initialized |-> xvid_initialized,
     mpeg4_extradata_size |-> mpeg4_extradata_size,
     mpeg4_extradata_sent |-> mpeg4_extradata_sent,
     xvid_handle |-> xvid_handle,
     yuv_buffer |-> yuv_buffer,
     g_decoders |-> g_decoders,
     g_buffers |-> g_buffers,
     g_released |-> <<>>,
     g_vols |-> g_vols,
     g_first |-> g_first,
     g_failed |-> FALSE,
     g_errors |-> 0,
     g_skipped |-> 0,
     g_clock |-> g_clock,
     xvid_env |-> "ok",
     decode_env |-> "ok",
     mad_env |-> 0,
     g_samples |-> 0,
     g_dropped |-> 0,
     menu_active |-> menu_active,
     menu_selection |-> menu_selection,
     seek_position |-> seek_position,
     was_paused_before_menu |-> was_paused_before_menu,
     submenu_active |-> submenu_active,
     color_submenu_active |-> color_submenu_active,
     file_browser_active |-> file_browser_active,
     fb_current_path |-> fb_current_path,
     fb_file_count |-> fb_file_count,
     fb_selection |-> fb_selection,
     prev |-> prev,
     is_locked |-> is_locked,
     lock_hold_counter |-> lock_hold_counter,
     halted |-> halted,
     g_written |-> g_written,
     g_consumed |-> g_consumed,
     g_refills |-> <<>>,
     g_decodes |-> <<>>,
     g_seeks |-> <<>>,
     g_sent |-> 0,
     g_due |-> 0,
     g_looped |-> FALSE,
     g_open |-> "none",
     g_ticked |-> FALSE]

Set(r) ==
    /\ disk' = disk
    /\ image' = image
    /\ tables' = tables
    /\ header' = header
    /\ codec' = codec
    /\ video_file' = r.video_file
    /\ index' = r.index
    /\ is_playing' = r.is_playing
    /\ is_paused' = r.is_paused
    /\ no_file_loaded' = r.no_file_loaded
    /\ total_frames' = r.total_frames
    /\ total_audio_chunks' = r.total_audio_chunks
    /\ clip_fps' = r.clip_fps
    /\ repeat_count' = r.repeat_count
    /\ repeat_counter' = r.repeat_counter
    /\ current_frame_idx' = r.current_frame_idx
    /\ audio_chunk_idx' = r.audio_chunk_idx
    /\ audio_chunk_pos' = r.audio_chunk_pos
    /\ audio_samples_sent' = r.audio_samples_sent
    /\ sent_wrapped' = r.sent_wrapped
    /\ aring_read' = r.aring_read
    /\ aring_write' = r.aring_write
    /\ aring_count' = r.aring_count
    /\ audio_format' = r.audio_format
    /\ audio_channels' = r.audio_channels
    /\ audio_sample_rate' = r.audio_sample_rate
    /\ audio_bits' = r.audio_bits
    /\ audio_bytes_per_sample' = r.audio_bytes_per_sample
    /\ has_audio' = r.has_audio
    /\ adpcm_block_align' = r.adpcm_block_align
    /\ adpcm_samples_per_block' = r.adpcm_samples_per_block
    /\ mp3_initialized' = r.mp3_initialized
    /\ mp3_input_len' = r.mp3_input_len
    /\ mp3_input_remaining' = r.mp3_input_remaining
    /\ mp3_src' = r.mp3_src
    /\ mp3_detected_samplerate' = r.mp3_detected_samplerate
    /\ mp3_detected_channels' = r.mp3_detected_channels
    /\ video_codec_type' = r.video_codec_type
    /\ xvid_initialized' = r.xvid_initialized
    /\ mpeg4_extradata_size' = r.mpeg4_extradata_size
    /\ mpeg4_extradata_sent' = r.mpeg4_extradata_sent
    /\ xvid_handle' = r.xvid_handle
    /\ yuv_buffer' = r.yuv_buffer
    /\ g_decoders' = r.g_decoders
    /\ g_buffers' = r.g_buffers
    /\ g_released' = r.g_released
    /\ g_vols' = r.g_vols
    /\ g_first' = r.g_first
    /\ g_failed' = r.g_failed
    /\ g_errors' = r.g_errors
    /\ g_skipped' = r.g_skipped
    /\ g_clock' = r.g_clock
    /\ menu_active' = r.menu_active
    /\ menu_selection' = r.menu_selection
    /\ seek_position' = r.seek_position
    /\ was_paused_before_menu' = r.was_paused_before_menu
    /\ submenu_active' = r.submenu_active
    /\ color_submenu_active' = r.color_submenu_active
    /\ file_browser_active' = r.file_browser_active
    /\ fb_current_path' = r.fb_current_path
    /\ fb_file_count' = r.fb_file_count
    /\ fb_selection' = r.fb_selection
    /\ prev' = r.prev
    /\ is_locked' = r.is_locked
    /\ lock_hold_counter' = r.lock_hold_counter
    /\ halted' = r.halted
    /\ g_written' = r.g_written
    /\ g_consumed' = r.g_consumed
    /\ g_refills' = r.g_refills
    /\ g_decodes' = r.g_decodes
    /\ g_seeks' = r.g_seeks
    /\ g_sent' = r.g_sent
    /\ g_due' = r.g_due
    /\ g_looped' = r.g_looped
    /\ g_open' = r.g_open
    /\ g_ticked' = r.g_ticked

Init ==
    /\ disk = Files
    /\ video_file = NULL
    /\ index = NULL
    /\ is_playing = FALSE
    /\ is_paused = FALSE
    /\ no_file_loaded = FALSE
    /\ total_frames = 0
    /\ total_audio_chunks = 0
    /\ clip_fps = 30
    /\ repeat_count = 1
    /\ repeat_counter = 0
    /\ current_frame_idx = 0
    /\ audio_chunk_idx = 0
    /\ audio_chunk_pos = 0
    /\ audio_samples_sent = 0
    /\ sent_wrapped = FALSE
    /\ aring_read = 0
    /\ aring_write = 0
    /\ aring_count = 0
    /\ audio_format = 0
    /\ audio_channels = 0
    /\ audio_sample_rate = 0
    /\ audio_bits = 0
    /\ audio_bytes_per_sample = 0
    /\ has_audio = FALSE
    /\ adpcm_block_align = 0
    /\ adpcm_samples_per_block = 0
    /\ mp3_initialized = FALSE
    /\ mp3_input_len = 0
    /\ mp3_input_remaining = 0
    /\ mp3_src = NULL
    /\ mp3_detected_samplerate = 0
    /\ mp3_detected_channels = 0
    /\ video_codec_type = CODEC_TYPE_UNKNOWN
    /\ xvid_initialized = FALSE
    /\ mpeg4_extradata_size = 0
    /\ mpeg4_extradata_sent = FALSE
    /\ xvid_handle = NULL
    /\ yuv_buffer = NULL
    /\ g_decoders = 0
    /\ g_buffers = 0
    /\ g_released = <<>>
    /\ g_vols = 0
    /\ g_first = "none"
    /\ g_failed = FALSE
    /\ g_errors = 0
    /\ g_skipped = 0
    /\ g_clock = 0
    /\ menu_active = FALSE
    /\ menu_selection = 0
    /\ seek_position = 0
    /\ was_paused_before_menu = FALSE
    /\ submenu_active = 0
    /\ color_submenu_active = FALSE
    /\ file_browser_active = FALSE
    /\ fb_current_path = FB_START_PATH
    /\ fb_file_count = 0
    /\ fb_selection = 0
    /\ prev = {}
    /\ is_locked = FALSE
    /\ lock_hold_counter = 0
    /\ halted = "no"
    /\ g_written = 0
    /\ g_consumed = 0
    /\ g_refills = <<>>
    /\ g_decodes = <<>>
    /\ g_seeks = <<>>
    /\ g_sent = 0
    /\ g_due = 0
    /\ g_looped = FALSE
    /\ g_open = "none"
    /\ g_ticked = FALSE
    /\ host = "init"
    /\ g_op = "init"
    /\ image = NoImage
    /\ tables = EmptyTables
    /\ header = NoHeader
    /\ codec = NoCodec

\* ------------------------------------------------------------------ actions
Buttons == {"A", "B", "LEFT", "RIGHT", "L", "R", "START", "UP", "DOWN"}

\* playback: nothing held, or one of pause / skip
PlayInputs == {{}, {"A"}, {"LEFT"}, {"RIGHT"}}
\* menu: nothing held, or one of select / next item / menu
MenuInputs == {{}, {"A"}, {"DOWN"}, {"START"}}

PlayPaths == {NULL, "pcm", "adpcm", "mp3s", "mp3m", "shortaud", "mjpg",
              "missing", "badsig", "noframes"}
MenuPaths == {NULL, "xvid"}

\* fseek(NULL) can only happen in a step that starts with no file open: a
\* failed open is the last thing its step does to the stream
NullIoNow == IF video_file = NULL THEN NullIo ELSE {"err"}

LoadGame(paths) ==
    /\ host = "init" /\ halted = "no"
    /\ \E path \in paths, nio \in NullIoNow : Set(retro_load_game(Cur(nio), path))
    /\ host' = "game" /\ g_op' = "load"

RunWith(inputs) ==
    /\ host = "game" /\ halted = "no"
    /\ \E cur \in inputs, nio \in NullIoNow : Set(retro_run(Cur(nio), cur))
    /\ host' = host /\ g_op' = "run"

Reset ==
    /\ host = "game" /\ halted = "no"
    /\ Set(retro_reset(Cur("err")))
    /\ host' = host /\ g_op' = "reset"

\* the frontend unloads the core after retro_unload_game
UnloadGame ==
    /\ host = "game" /\ halted = "no"
    /\ Set(retro_unload_game(Cur("err")))
    /\ host' = "unloaded" /\ g_op' = "unload"

Load == LoadGame(PlayPaths)
Run == RunWith(PlayInputs)

Next == Load \/ Run \/ Reset \/ UnloadGame

Spec == Init /\ [][Next]_vars

MenuLoad == LoadGame(MenuPaths)
MenuRun == RunWith(MenuInputs)

MenuNext == MenuLoad \/ MenuRun \/ Reset \/ UnloadGame

MenuSpec == Init /\ [][MenuNext]_vars

\* containers whose audio stream declares 44000 Hz or more
HiRatePaths == {"pcm44", "adpcm48", "mp3hi"}
HiRateLoad == LoadGame(HiRatePaths)

HiRateNext == HiRateLoad \/ Run \/ Reset \/ UnloadGame

HiRateSpec == Init /\ [][HiRateNext]_vars

\* an MP3 container cut off inside its last frame, and one with an MP3
\* stream header but no audio chunk
CutPaths == {"mp3cut", "mp3mute"}
CutLoad == LoadGame(CutPaths)

CutNext == CutLoad \/ Run \/ Reset \/ UnloadGame

CutSpec == Init /\ [][CutNext]_vars

\* adaptive-differential audio: a clip whose audio ends early, a whole clip
\* and a container with no video frame
AdpcmPaths == {"adpcm", "adpcmcut", "adpcm0"}
AdpcmLoad == LoadGame(AdpcmPaths)

AdpcmNext == AdpcmLoad \/ Run \/ Reset \/ UnloadGame

AdpcmSpec == Init /\ [][AdpcmNext]_vars

\* frame times at and beyond the ends of what the header can say
TimingPaths == {"lapse", "lapsemax", "notime", "pcm"}
TimingLoad == LoadGame(TimingPaths)

TimingNext == TimingLoad \/ Run \/ Reset \/ UnloadGame

TimingSpec == Init /\ [][TimingNext]_vars

\* an MP3 stream that starts with bytes the decoder rejects
JunkPaths == {"mp3junk"}
JunkLoad ==
    /\ host = "init" /\ halted = "no"
    /\ \E path \in JunkPaths, skip \in MadSkips :
           Set(retro_load_game([Cur("err") EXCEPT !.mad_env = skip], path))
    /\ host' = "game" /\ g_op' = "load"

JunkRun ==
    /\ host = "game" /\ halted = "no"
    /\ \E cur \in PlayInputs, skip \in MadSkips :
           Set(retro_run([Cur("err") EXCEPT !.mad_env = skip], cur))
    /\ host' = host /\ g_op' = "run"

JunkNext == JunkLoad \/ JunkRun \/ Reset \/ UnloadGame

JunkSpec == Init /\ [][JunkNext]_vars


\* a second content after retro_unload_game: a clip whose PCM stream is not
\* a whole number of 4-byte frames, an MP3 clip, and a file that parses as
\* MP3 audio and fails to open
StalePaths == {"lapse", "mp3m", "mp3m0"}
StaleLoad ==
    /\ host \in {"init", "unloaded"} /\ halted = "no"
    /\ \E path \in StalePaths : Set(retro_load_game(Cur("err"), path))
    /\ host' = "game" /\ g_op' = "load"

StaleNext == StaleLoad \/ Run \/ Reset \/ UnloadGame

StaleSpec == Init /\ [][StaleNext]_vars

\* the frontend may load again after an unload, and ends with retro_deinit
XvidPaths == {"xvid", "xvidbig", "mp3s", "badsig"}
XvidInputs == {{}, {"RIGHT"}}

XvidLoad ==
    /\ host \in {"init", "unloaded"} /\ halted = "no"
    /\ \E path \in XvidPaths : Set(retro_load_game(Cur("err"), path))
    /\ host' = "game" /\ g_op' = "load"

XvidRun ==
    /\ host = "game" /\ halted = "no"
    /\ \E cur \in XvidInputs, env \in XvidEnvs :
           Set(retro_run([Cur("err") EXCEPT !.xvid_env = env], cur))
    /\ host' = host /\ g_op' = "run"

Deinit ==
    /\ host \in {"game", "unloaded"} /\ halted = "no"
    /\ Set(retro_deinit(Cur("err")))
    /\ host' = "deinit" /\ g_op' = "deinit"

\* a short silent clip played with the shoulder buttons held, alone or with
\* another control
LockPaths == {"mjpg"}
LockKeys == {"L", "R"}
LockInputs == {{}, LockKeys, {"L"}, {"A"}, LockKeys \cup {"A"}, {"START"},
               {"RIGHT"}, LockKeys \cup {"RIGHT"}}

LockLoad == LoadGame(LockPaths)
LockRun == RunWith(LockInputs)

LockNext == LockLoad \/ LockRun

LockSpec == Init /\ [][LockNext]_vars

\* a clip left to play with no button pressed, its frames failing to
\* decode at will.  The frontend calls retro_run once per video frame for
\* as long as the game is loaded: g_clock is the parity of those calls, and
\* Ticking is the step an IdleTick makes of it.
LivePaths == {"pcm", "adpcm", "mp3s", "mjpg", "xvid"}

LiveLoad == LoadGame(LivePaths)

IdleTick ==
    /\ host = "game" /\ halted = "no"
    /\ \E denv \in DecodeEnvs, xenv \in XvidEnvs, nio \in NullIoNow :
           Set(retro_run([Cur(nio) EXCEPT !.decode_env = denv, !.xvid_env = xenv,
                                          !.g_clock = 1 - @], {}))
    /\ host' = host /\ g_op' = "run"

LiveNext == LiveLoad \/ IdleTick

Ticking == host = "game" /\ halted = "no" /\ g_clock' = 1 - g_clock

LiveSpec == Init /\ [][LiveNext]_vars /\ WF_g_clock(Ticking)

XvidNext == XvidLoad \/ XvidRun \/ UnloadGame \/ Deinit

XvidSpec == Init /\ [][XvidNext]_vars

\* a container image is put before the indexer
Insert ==
    /\ host = "init" /\ image = NoImage
    /\ \E kinds \in KindSeqs, conv \in Conventions, n \in PayloadSizes, upper \in BOOLEAN :
           image' = Image(kinds, conv, n, upper)
    /\ UNCHANGED <<player, tables, header, codec>>

\* parse_avi builds the tables from it
IndexImage ==
    /\ image # NoImage /\ ~tables.parsed
    /\ tables' = index_container(image.bytes)
    /\ UNCHANGED <<player, image, header, codec>>

IndexNext == Insert \/ IndexImage

IndexSpec == Init /\ [][IndexNext]_vars

\* a stream header arrives
Stream ==
    /\ host = "init" /\ ~header.set
    /\ \E sig \in BOOLEAN, vids \in BOOLEAN, h \in Handlers, c \in Compressions :
           header' = [sig |-> sig, vids |-> vids, handler |-> h, compression |-> c,
                      set |-> TRUE]
    /\ UNCHANGED <<player, image, tables, codec>>

\* parse_avi classifies it
Classify ==
    /\ header.set /\ ~codec.parsed
    /\ codec' = parse_codec(header, codec)
    /\ UNCHANGED <<player, image, tables, header>>

CodecNext == Stream \/ Classify
CodecSpec == Init /\ [][CodecNext]_vars

\* ------------------------------------------------------------------ properties

(* C1: the ring's byte count stays within 0 .. AUDIO_RING_SIZE, and the    *)
(* bytes read_audio_ring has handed out since the ring was last emptied    *)
(* never exceed the bytes the refill paths have written since then.        *)
C1_RingCountBounded ==
    /\ 0 <= aring_count /\ aring_count <= AUDIO_RING_SIZE
    /\ g_consumed <= g_written
    /\ aring_count = g_written - g_consumed

\* more than a ring's worth has been written and part of it read back
C1_Witness ==
    /\ g_written > AUDIO_RING_SIZE /\ g_consumed > 0 /\ aring_count > 0

(* C2: the ring cursors are consistent in every state: both lie in         *)
(* 0 .. AUDIO_RING_SIZE - 1 and the write cursor is the read cursor plus   *)
(* the count, modulo the ring size.                                        *)
C2_RingCursorsConsistent ==
    /\ aring_read \in 0 .. AUDIO_RING_SIZE - 1
    /\ aring_write \in 0 .. AUDIO_RING_SIZE - 1
    /\ aring_write = (aring_read + aring_count) % AUDIO_RING_SIZE

\* the MP3 mono path has wrapped the write cursor behind the read cursor
C2_Witness ==
    /\ audio_format = AUDIO_FMT_MP3 /\ mp3_detected_channels = 1
    /\ aring_count > 0 /\ aring_write < aring_read

(* C3: no refill_audio_ring call appends more bytes than the ring had free *)
(* when the call started.                                                  *)
C3_RefillWithinFreeSpace ==
    \A i \in 1 .. Len(g_refills) :
        /\ g_refills[i].free = AUDIO_RING_SIZE - g_refills[i].count0
        /\ 0 <= g_refills[i].appended
        /\ g_refills[i].appended <= g_refills[i].free

\* a refill into a partly filled ring appended bytes, on the ADPCM path
C3_Witness ==
    \E i \in 1 .. Len(g_refills) :
        /\ g_refills[i].fmt = AUDIO_FMT_ADPCM
        /\ g_refills[i].count0 > 0 /\ g_refills[i].appended > 0

(* C4: in every state the frame index lies in 0 .. total_frames.           *)
C4_FrameIndexInRange ==
    0 <= current_frame_idx /\ current_frame_idx <= total_frames

Cursors(s) ==
    [current_frame_idx |-> s.current_frame_idx, repeat_counter |-> s.repeat_counter,
     is_paused |-> s.is_paused,
     audio_chunk_idx |-> s.audio_chunk_idx, audio_chunk_pos |-> s.audio_chunk_pos,
     audio_samples_sent |-> s.audio_samples_sent, sent_wrapped |-> s.sent_wrapped,
     aring_read |-> s.aring_read, aring_write |-> s.aring_write,
     aring_count |-> s.aring_count,
     mp3_input_len |-> s.mp3_input_len, mp3_input_remaining |-> s.mp3_input_remaining,
     halted |-> s.halted]

\* seek targets tried in every state: below, at both ends of, inside and
\* beyond the clip
SeekTargets == {-5, 0, total_frames \div 2, total_frames - 1, total_frames + 100}

(* C6: seeking twice to the same frame leaves the transport cursor, the    *)
(* audio cursor and the ring exactly as one seek to that frame does, from  *)
(* every state the player can be in and for every audio format.            *)
C6_SeekIdempotent ==
    (host = "game" /\ halted = "no") =>
        \A f \in SeekTargets : \A nio \in NullIoNow :
            LET once == seek_to_frame(Cur(nio), f)
            IN Cursors(seek_to_frame(once, f)) = Cursors(once)

\* a seek has just moved an ADPCM clip off its first frame, and a seek
\* elsewhere would move the cursors again
C6_Witness ==
    /\ host = "game" /\ halted = "no"
    /\ audio_format = AUDIO_FMT_ADPCM /\ has_audio
    /\ Len(g_seeks) = 1 /\ g_seeks[1].frame > 0 /\ aring_count > 0
    /\ Cursors(seek_to_frame(Cur("err"), 0)) # Cursors(Cur("err"))

\* the audio cursor and the ring of a state
AudioCursor(s) ==
    [audio_chunk_idx |-> s.audio_chunk_idx, audio_chunk_pos |-> s.audio_chunk_pos,
     audio_samples_sent |-> s.audio_samples_sent, sent_wrapped |-> s.sent_wrapped,
     aring_read |-> s.aring_read, aring_write |-> s.aring_write,
     aring_count |-> s.aring_count]

\* the state with the audio cursor, the ring and the MP3 staging buffer at
\* their start-of-stream values
Rewound(s) ==
    [s EXCEPT !.audio_chunk_idx = 0, !.audio_chunk_pos = 0,
              !.audio_samples_sent = 0, !.sent_wrapped = FALSE,
              !.aring_read = 0, !.aring_write = 0, !.aring_count = 0,
              !.g_written = 0, !.g_consumed = 0,
              !.mp3_input_len = 0, !.mp3_input_remaining = 0]

\* the sample position of a frame: frame * rate / fps, for MP3 rounded down
\* to the start of an MP3 frame that exists
SamplePos(r) ==
    LET time_samples == (r.frame * r.rate) \div r.fps
        spf == IF r.rate >= 32000 THEN 1152 ELSE 576
    IN IF r.fmt = AUDIO_FMT_MP3
       THEN spf * Min(time_samples \div spf, r.chunks - 1)
       ELSE time_samples

(* C7: every operation that sets the frame index other than the per-tick   *)
(* advance re-derives the audio side with it.  A seek on a clip with audio *)
(* leaves audio_samples_sent at the sample position of the frame it lands  *)
(* on, empties the ring before its refill, and its audio cursor and ring   *)
(* do not depend on where the audio cursor was; a loop wrap, a reset and   *)
(* an open leave frame 0 with audio_samples_sent 0 and the audio cursor    *)
(* and ring of a rewound stream (after one refill, except on reset).       *)
C7_CursorsRederivedTogether ==
    /\ \A i \in 1 .. Len(g_seeks) :
           LET r == g_seeks[i]
           IN r.audio =>
                 /\ ~r.wrapped /\ r.sent = SamplePos(r)
                 /\ \A j \in 1 .. Len(r.refills) : r.refills[j].count0 = 0
    /\ (host = "game" /\ halted = "no") =>
           \A f \in SeekTargets : \A nio \in NullIoNow :
               AudioCursor(seek_to_frame(Cur(nio), f))
                   = AudioCursor(seek_to_frame(Rewound(Cur(nio)), f))
    /\ (halted = "no" /\ (g_looped \/ g_open = "ok")) =>
           /\ current_frame_idx = 0 /\ repeat_counter = 0
           /\ AudioCursor(Cur("err")) = AudioCursor(refill_audio_ring(Rewound(Cur("err"))))
    /\ (halted = "no" /\ g_op = "reset") =>
           /\ current_frame_idx = 0 /\ repeat_counter = 0
           /\ AudioCursor(Cur("err")) = AudioCursor(Rewound(Cur("err")))

(* C8: a tick in which the frame index reaches total_frames leaves frame 0 *)
(* with audio_samples_sent, the audio cursor and repeat_counter rewound    *)
(* and the ring holding exactly one refill's worth read from the start of  *)
(* the stream, and the next tick decodes frame 0 first.                    *)
C8_LoopReset ==
    (g_looped /\ halted = "no") =>
        /\ current_frame_idx = 0 /\ repeat_counter = 0
        /\ audio_samples_sent = 0 /\ ~sent_wrapped
        /\ aring_read = 0 /\ g_consumed = 0 /\ aring_count = g_written
        /\ IF has_audio /\ total_audio_chunks > 0
           THEN /\ g_refills # <<>>
                /\ g_refills[Len(g_refills)].count0 = 0
                /\ g_refills[Len(g_refills)].appended = aring_count
           ELSE aring_count = 0
        /\ [idx |-> audio_chunk_idx, pos |-> audio_chunk_pos]
               = LET p == refill_audio_ring(Rewound(Cur("err")))
                 IN [idx |-> p.audio_chunk_idx, pos |-> p.audio_chunk_pos]
        /\ \A nio \in NullIoNow :
               LET d == retro_run(Cur(nio), {}).g_decodes
               IN /\ d # <<>> => d[1] = 0
                  /\ video_file # NULL => d = <<0>>

\* an MP3 clip has just looped and its ring holds the pre-fill
C8_Witness ==
    /\ g_looped /\ halted = "no" /\ audio_format = AUDIO_FMT_MP3
    /\ aring_count > 0 /\ audio_chunk_idx > 0

\* the video-derived audio clock: current_frame_idx * rate / clip_fps
effective_rate ==
    IF audio_format = AUDIO_FMT_MP3 /\ mp3_detected_samplerate > 0
    THEN mp3_detected_samplerate ELSE audio_sample_rate

VideoClock == (current_frame_idx * effective_rate) \div clip_fps

sync_offset == effective_rate \div 10

\* a playing tick of a clip with audio that neither sought nor looped
SteadyTick ==
    /\ halted = "no" /\ g_op = "run" /\ g_ticked /\ g_seeks = <<>> /\ ~g_looped
    /\ has_audio /\ audio_bytes_per_sample > 0

(* C9 as stated: after a playing tick without a seek the samples delivered *)
(* are within lead_offset plus one batch of the video-derived clock.       *)
C9_SyncWithinOneBatch ==
    SteadyTick =>
        /\ audio_samples_sent - VideoClock <= sync_offset + MAX_AUDIO_BUFFER
        /\ VideoClock - audio_samples_sent <= sync_offset + MAX_AUDIO_BUFFER

(* C9, amended: after a playing tick without a seek the audio delivered    *)
(* never leads the video-derived clock by more than lead_offset, and is    *)
(* exactly lead_offset ahead when the tick delivered every sample that was *)
(* due; how far it may lag is not bounded.                                 *)
C9_AudioNeverLeads ==
    SteadyTick =>
        /\ audio_samples_sent <= VideoClock + sync_offset
        /\ (g_due > 0 /\ g_sent = g_due) => audio_samples_sent = VideoClock + sync_offset
        /\ g_due <= 0 => g_sent = 0

\* a tick after which the audio lags the clock by more than the lead and a
\* batch, although the ring still holds data
C9_Witness ==
    /\ SteadyTick /\ aring_count > 0
    /\ VideoClock - audio_samples_sent > sync_offset + MAX_AUDIO_BUFFER

(* C10: an open that fails leaves the player stopped with no file, and a   *)
(* tick with no file open decodes no frame, calls no refill and delivers   *)
(* no audio.                                                               *)
C10_FailedOpenStops ==
    /\ g_open = "fail" => (~is_playing /\ video_file = NULL)
    /\ (video_file = NULL /\ g_op = "run" /\ g_open = "none") =>
           (g_decodes = <<>> /\ g_refills = <<>> /\ g_sent = 0 /\ ~g_ticked)

\* the containers an open is tried on
OpenPaths == PlayPaths \ {NULL}

(* C11: from every state, an open of a file that lacks the RIFF/AVI         *)
(* signature or in which no video frame was indexed returns 0, and an open *)
(* of a file with the signature and at least one indexed video frame       *)
(* returns 1 with the player Playing at frame 0, repeat_counter 0 and      *)
(* audio_samples_sent 0, whether or not the file has an audio stream.      *)
C11_OpenOutcome ==
    (host \in {"init", "game"} /\ halted = "no") =>
        \A path \in OpenPaths :
            LET r == open_video(Cur("err"), path)
                f == disk[path]
            IN /\ (~f.exists \/ ~f.sig \/ f.nframes = 0) =>
                      (r.ret = 0 /\ r.g_open = "fail")
               /\ (f.exists /\ f.sig /\ f.nframes > 0) =>
                      /\ r.ret = 1 /\ r.g_open = "ok" /\ r.is_playing
                      /\ r.video_file = path /\ r.total_frames = f.nframes
                      /\ r.current_frame_idx = 0 /\ r.repeat_counter = 0
                      /\ r.audio_samples_sent = 0 /\ ~r.sent_wrapped

\* a file with no audio stream has just been opened and is Playing
C11_Witness ==
    /\ g_open = "ok" /\ video_file = "mjpg" /\ ~has_audio
    /\ is_playing /\ current_frame_idx = 0 /\ total_frames > 0


\* ---- the indexer's claims, over the image in `image' and its tables
\* sub-chunks of kind k in the image
Count(k) == Cardinality({i \in 1 .. Len(image.kinds) : image.kinds[i] = k})

\* where the payloads of the sub-chunks of kind k start, in file order
RECURSIVE PayloadPositions(_, _)
PayloadPositions(k, i) ==
    IF i > Len(image.kinds) THEN <<>>
    ELSE (IF image.kinds[i] = k
          THEN <<Len(Prefix(0)) + (i - 1) * Stride(image.psize) + 8>> ELSE <<>>)
         \o PayloadPositions(k, i + 1)

\* the media-data range of the image, as parse_avi computes it
MoviStart == Len(Prefix(0))
MoviEnd == MoviStart + read_u32_le(image.bytes, 16) - 4

\* what the linear scan alone makes of the image
Scanned == scan_movi_buffered(image.bytes, EmptyTables, MoviStart, MoviEnd)

\* the offset stamped in the first video record of the image's index
FirstVideoOffset ==
    read_u32_le(image.bytes,
                first_video(image.bytes, MoviEnd + 8,
                            read_u32_le(image.bytes, MoviEnd + 4) \div 16, 0) + 8)

\* an index in one of the three base conventions
ThreeConventions == {"movi", "abs", "movi4"}

Increasing(q) == \A i \in 1 .. Len(q) - 1 : q[i] < q[i + 1]

\* q holds the first Len(q) entries of e, up to a common shift
FirstOf(q, e) ==
    /\ Len(q) <= Len(e)
    /\ \A i \in 1 .. Len(q) : q[i] - q[1] = e[i] - e[1]

(* C12: for a well-formed image (no index, or one in a base convention)    *)
(* with N video and M audio sub-chunks, N <= MAX_FRAMES and                *)
(* M <= MAX_AUDIO_CHUNKS, the tables hold exactly N frames and M audio     *)
(* chunks, each in file order, whichever path built them.                  *)
C12_IndexComplete ==
    (tables.parsed /\ image.conv \in ThreeConventions \cup {"none"}
       /\ Count("dc") <= MAX_FRAMES /\ Count("wb") <= MAX_AUDIO_CHUNKS) =>
        /\ tables.total_frames = Count("dc")
        /\ tables.total_audio_chunks = Count("wb")
        /\ Len(tables.frame_offsets) = Count("dc")
        /\ Len(tables.audio_offsets) = Count("wb")
        /\ Increasing(tables.frame_offsets) /\ Increasing(tables.audio_offsets)

(* C13: for an image with an index in one of the three base conventions,   *)
(* the index path gives the frame count and order of the linear scan, and  *)
(* every frame entry has the scan's payload start and length.              *)
C13_PathsAgree ==
    (tables.parsed /\ image.conv \in ThreeConventions /\ Count("dc") > 0) =>
        /\ tables.found_idx1
        /\ tables.total_frames = Scanned.total_frames
        /\ tables.frame_offsets = Scanned.frame_offsets
        /\ tables.frame_sizes = Scanned.frame_sizes

\* the order in which parse_idx1 may probe
ProbeOrder == <<"movi", "abs", "movi4", "jpeg4", "jpeg5", "jpeg6", "jpeg7">>

\* the positions of the three header candidates
Candidates == <<MoviStart + FirstVideoOffset, FirstVideoOffset,
                MoviStart - 4 + FirstVideoOffset>>

(* C14: when the index is accepted, the base chosen is the first of        *)
(* media-data-relative, absolute, media-data-minus-4 at which the first    *)
(* video record's offset finds a valid sub-chunk header (either case), the *)
(* JPEG probes being tried only when none of the three does; an index in   *)
(* one of the three conventions is accepted, and its first video record    *)
(* resolves to a valid sub-chunk header.                                   *)
C14_FirstValidBase ==
    /\ (tables.parsed /\ tables.found_idx1) =>
        LET d == tables.detect
            k == Len(d.probes)
        IN /\ d.format_found
           /\ k >= 1 /\ d.probes = SubSeq(ProbeOrder, 1, k)
           /\ \A j \in 1 .. Min(k - 1, 3) : ~check_chunk_header(image.bytes, Candidates[j])
           /\ k <= 3 => /\ check_chunk_header(image.bytes, Candidates[k])
                        /\ d.offset_base + FirstVideoOffset = Candidates[k]
                        /\ d.add_header = 8
           /\ k > 3 => ~check_chunk_header(image.bytes, Candidates[3])
    /\ (tables.parsed /\ image.conv \in ThreeConventions /\ Count("dc") > 0) =>
        /\ tables.found_idx1
        /\ Len(tables.detect.probes) <= 3
        /\ check_chunk_header(image.bytes, tables.detect.offset_base + FirstVideoOffset)

\* an upper-case index stamped relative to the 'movi' tag was accepted on
\* the third candidate
C14_Witness ==
    /\ tables.parsed /\ tables.found_idx1 /\ image.conv = "movi4" /\ image.upper
    /\ tables.detect.probes = <<"movi", "abs", "movi4">>
    /\ Count("wb") > 0

(* C15: an index with no video record, or one no candidate base validates  *)
(* for, or a file without an index, is rejected, and then the tables are   *)
(* exactly those of the linear scan of the media-data range; parse_avi     *)
(* fails only if that scan found no video frame.                           *)
C15_RejectedIndexFallsBack ==
    tables.parsed =>
        /\ (image.conv \in {"none", "junk", "audio"} \/ Count("dc") = 0) => ~tables.found_idx1
        /\ ~tables.found_idx1 =>
              /\ tables.total_frames = Scanned.total_frames
              /\ tables.total_audio_chunks = Scanned.total_audio_chunks
              /\ tables.frame_offsets = Scanned.frame_offsets
              /\ tables.frame_sizes = Scanned.frame_sizes
              /\ tables.audio_offsets = Scanned.audio_offsets
              /\ tables.audio_sizes = Scanned.audio_sizes
              /\ tables.ret = (IF Scanned.total_frames > 0 THEN 1 ELSE 0)

\* an index whose offsets validate nowhere was rejected after all seven
\* probes, and the scan indexed video and audio
C15_Witness ==
    /\ tables.parsed /\ image.conv = "junk" /\ ~tables.found_idx1
    /\ Len(tables.detect.probes) = 7
    /\ tables.total_frames > 0 /\ tables.total_audio_chunks > 0 /\ tables.ret = 1

(* C16: on either path total_frames <= MAX_FRAMES and total_audio_chunks   *)
(* <= MAX_AUDIO_CHUNKS; with more video sub-chunks than MAX_FRAMES the     *)
(* frame table holds the first MAX_FRAMES of them in file order, the audio *)
(* table holds leading audio sub-chunks in file order (all the first       *)
(* MAX_AUDIO_CHUNKS on the index path), and parse_avi still succeeds.      *)
C16_CapacityCeiling ==
    tables.parsed =>
        /\ tables.total_frames <= MAX_FRAMES
        /\ tables.total_audio_chunks <= MAX_AUDIO_CHUNKS
        /\ Len(tables.frame_offsets) = tables.total_frames
        /\ Len(tables.frame_sizes) = tables.total_frames
        /\ Len(tables.audio_offsets) = tables.total_audio_chunks
        /\ Len(tables.audio_sizes) = tables.total_audio_chunks
        /\ tables.total_frames = Min(Count("dc"), MAX_FRAMES)
        /\ FirstOf(tables.frame_offsets, PayloadPositions("dc", 1))
        /\ FirstOf(tables.audio_offsets, PayloadPositions("wb", 1))
        /\ (tables.found_idx1 /\ image.conv # "audio") =>
               tables.total_audio_chunks = Min(Count("wb"), MAX_AUDIO_CHUNKS)
        /\ Count("dc") > 0 => tables.ret = 1

\* an indexed image with more video sub-chunks than the frame table takes
C16_Witness ==
    /\ tables.parsed /\ tables.found_idx1
    /\ Count("dc") > MAX_FRAMES /\ Count("wb") > 0
    /\ tables.total_frames = MAX_FRAMES /\ tables.ret = 1


\* the fourcc spells one of the names in `names', in either case
Spells(f, names) == \E n \in names : f \in CaseVariants(n)

\* the classification the lists prescribe for what the parse stored
Classified ==
    /\ codec.video_codec_type # CODEC_TYPE_UNKNOWN
    /\ Spells(codec.video_fourcc, Mpeg4Fourccs) => codec.video_codec_type = CODEC_TYPE_MPEG4
    /\ ~Spells(codec.video_fourcc, Mpeg4Fourccs) => codec.video_codec_type = CODEC_TYPE_MJPEG

(* C17 as stated: after any parse the video fourcc is classified, in       *)
(* either case, by the two lists, anything else and a missing fourcc being *)
(* intra-transform, and the codec type is not unknown.                     *)
C17_AfterAnyParse == codec.parsed => Classified

(* C17: after any parse that passes the RIFF/AVI signature check the video *)
(* fourcc is classified, in either case, by the two lists, anything else   *)
(* and a missing fourcc being intra-transform, and the codec type is not   *)
(* unknown; the fourcc classified is the stream handler, or biCompression  *)
(* when the handler is empty or blank.                                     *)
C17_ClassificationTotal ==
    (codec.parsed /\ header.sig) =>
        /\ Classified
        /\ codec.video_fourcc = stream_fourcc(header)
        /\ (header.vids /\ header.handler[1] \notin {0, 32}) =>
               codec.video_fourcc = header.handler

\* a mixed-case xViD handler was classified as MPEG-4
C17_Witness ==
    /\ codec.parsed /\ header.sig /\ header.vids
    /\ header.handler = <<120, 86, 105, 68>>
    /\ codec.video_codec_type = CODEC_TYPE_MPEG4


\* the file parsed last declares an audio rate of 44000 Hz or more
HiRateParsed == index # NULL /\ disk[index].strf.rate >= 44000

\* where a tick without input leaves the video cursor of a playing clip
NextCursor ==
    IF repeat_counter + 1 < repeat_count
    THEN <<current_frame_idx, repeat_counter + 1>>
    ELSE IF current_frame_idx + 1 >= total_frames THEN <<0, 0>>
    ELSE <<current_frame_idx + 1, 0>>

(* C18: after a container declaring an audio rate >= 44000 Hz is opened,   *)
(* whatever its codec, the open has succeeded with has_audio false, no     *)
(* step refills or writes the ring or delivers a sample, and a tick with   *)
(* no button held shows the frame due and moves the video cursor on.       *)
C18_AudioDisabled ==
    HiRateParsed =>
        /\ ~has_audio /\ audio_format = 0
        /\ g_op = "load" => (g_open = "ok" /\ is_playing /\ total_frames > 0)
        /\ g_refills = <<>> /\ g_sent = 0
        /\ g_written = 0 /\ aring_count = 0 /\ audio_samples_sent = 0
        /\ (host = "game" /\ halted = "no" /\ is_playing /\ ~is_paused) =>
               LET r == retro_run(Cur("err"), {})
               IN /\ r.g_ticked
                  /\ r.g_decodes = IF repeat_counter = 0 THEN <<current_frame_idx>> ELSE <<>>
                  /\ <<r.current_frame_idx, r.repeat_counter>> = NextCursor
                  /\ r.g_refills = <<>> /\ r.g_sent = 0
                  /\ r.g_written = 0 /\ r.aring_count = 0

\* the 48000 Hz ADPCM clip has played into its third frame in silence,
\* with its audio chunks indexed
C18_Witness ==
    /\ HiRateParsed /\ index = "adpcm48" /\ g_op = "run" /\ g_ticked
    /\ current_frame_idx >= 2 /\ total_audio_chunks > 0 /\ ~has_audio


(* C19: every call of refill_audio_ring returns: no step of the player     *)
(* stays in the MP3 refill loop with the decoder asking for more input,    *)
(* nothing consumed and nothing left to add.                               *)
C19_RefillReturns == halted # "hang"



\* the cumulative byte offset of the audio cursor
CumOffset == BytesBefore(index, audio_chunk_idx) + audio_chunk_pos

\* this step sought in uncompressed audio
PcmSought ==
    /\ g_seeks # <<>>
    /\ g_seeks[Len(g_seeks)].audio /\ g_seeks[Len(g_seeks)].fmt = AUDIO_FMT_PCM

\* seek(225) in the 450-frame clip, straight after it is opened
ExampleSeek == seek_to_frame(open_video(Cur("err"), "pcm15"), 225)

(* C20: a seek in uncompressed audio sets audio_samples_sent to            *)
(* frame * sample_rate / clip_fps for the frame it lands on, and when that *)
(* many samples lie within the audio data the ring is refilled from byte   *)
(* time_samples * bytes_per_sample: the cumulative offset of the audio     *)
(* cursor less the bytes read since is that offset.  In the 450-frame      *)
(* 15 fps mono 22050 Hz 16-bit clip seek(225) gives 330750 samples and     *)
(* byte 661500.                                                            *)
C20_PcmSeekMapping ==
    /\ PcmSought =>
        LET q == g_seeks[Len(g_seeks)]
            time_samples == (q.frame * q.rate) \div q.fps
        IN /\ ~q.wrapped /\ q.sent = time_samples
           /\ (halted = "no" /\ ~g_looped
                 /\ time_samples * audio_bytes_per_sample
                        < BytesBefore(index, total_audio_chunks)) =>
                  CumOffset - g_written = time_samples * audio_bytes_per_sample
    /\ g_op = "init" =>
        /\ ExampleSeek.audio_samples_sent = 330750
        /\ BytesBefore("pcm15", ExampleSeek.audio_chunk_idx) + ExampleSeek.audio_chunk_pos
              - ExampleSeek.g_written = 661500


\* the buttons that went down on the step
NewlyPressed == prev' \ prev

\* the step was a retro_run with the menu closed and the keys unlocked
PlainTick == g_op' = "run" /\ ~menu_active /\ ~menu_active' /\ ~is_locked /\ ~is_locked'

SkipKeys == {"LEFT", "RIGHT", "UP", "DOWN"}

\* open, pause toggle, and the flags across every other tick
TransportSteps ==
    /\ g_open' = "ok" => (is_playing' /\ ~is_paused')
    /\ (PlainTick /\ "A" \in NewlyPressed) =>
           (is_paused' = ~is_paused /\ is_playing' = is_playing)
    /\ (PlainTick /\ "A" \notin NewlyPressed) =>
           (is_paused' = is_paused /\ is_playing' = is_playing)

Releasable ==
    (IF xvid_handle # NULL THEN <<"decoder">> ELSE <<>>)
        \o (IF yuv_buffer # NULL THEN <<"yuv">> ELSE <<>>)

\* the steps that run close_xvid: an open, an unload and retro_deinit
ClosingStep == g_op' \in {"load", "unload", "deinit"}

(* C22: a close leaves xvid_handle and yuv_buffer NULL and xvid_initialized *)
(* clear, releases the decoder and the plane buffer that exist once each   *)
(* and nothing when there is none (a second close, unload then deinit, no  *)
(* decoder ever created); no decoder or buffer is ever lost or released    *)
(* twice; after unload the player is stopped.                              *)
C22_CloseReleasesOnce ==
    [][/\ ClosingStep =>
            /\ xvid_handle' = NULL /\ yuv_buffer' = NULL /\ ~xvid_initialized'
            /\ g_released' = Releasable
            /\ g_decoders' = 0 /\ g_buffers' = 0
       /\ g_op' = "unload" => (~is_playing' /\ video_file' = NULL)
       /\ g_decoders' = (IF xvid_handle' # NULL THEN 1 ELSE 0)
       /\ g_buffers' = (IF yuv_buffer' # NULL THEN 1 ELSE 0)
       /\ xvid_initialized' <=> xvid_handle' # NULL]_vars

\* retro_deinit after an unload that closed a decoder in use: nothing left
C22_Witness ==
    /\ g_op = "deinit" /\ g_released = <<>> /\ g_first = "vol"
    /\ video_file = NULL /\ xvid_handle = NULL /\ yuv_buffer = NULL

\* the MP3 format an open may have re-detected from the new file
Redetected(path) ==
    IF audio_format' = AUDIO_FMT_MP3
    THEN {[sr |-> 0, ch |-> 0],
          [sr |-> disk[path].mp3.rate, ch |-> disk[path].mp3.channels]}
    ELSE {[sr |-> 0, ch |-> 0]}

\* open_video applied to the current state, whatever the previous file left
Reopened(path) == open_video(Cur("err"), path)

CarriesExtradata ==
    /\ video_file # NULL /\ video_codec_type = CODEC_TYPE_MPEG4
    /\ disk[video_file].extra \in 1 .. MAX_EXTRADATA_SIZE

(* C24: since a file with 1..MAX_EXTRADATA_SIZE bytes of extradata was     *)
(* opened, the extradata has been given to the decoder at most once, and   *)
(* exactly once if anything was given to it at all, ahead of the first     *)
(* frame payload; ticks, seeks and loops never submit it again.            *)
C24_ExtradataOnce ==
    CarriesExtradata =>
        /\ mpeg4_extradata_size = disk[video_file].extra
        /\ g_vols <= 1
        /\ g_first \in {"none", "vol"}
        /\ g_first = "vol" <=> g_vols = 1
        /\ mpeg4_extradata_sent <=> g_vols = 1

\* the clip has looped after a seek and the extradata went in once
C24_Witness ==
    /\ CarriesExtradata /\ g_op = "run" /\ g_looped /\ prev = {"RIGHT"}
    /\ g_vols = 1 /\ g_first = "vol" /\ xvid_initialized

(* C25: a retro_run performs decode_single_frame at most once, whatever    *)
(* buttons are pressed.                                                    *)
C25_OneDecodePerRun == g_op = "run" => Len(g_decodes) <= 1

\* the player is playing a clip with at least one frame
Rolling == is_playing /\ ~is_paused /\ total_frames >= 1 /\ video_file # NULL

\* what one tick does to the frame cursor, whether its decode failed or not
Advanced ==
    IF repeat_counter + 1 >= repeat_count
    THEN /\ repeat_counter' = 0
         /\ current_frame_idx' = (current_frame_idx + 1) % total_frames
         /\ g_looped' <=> current_frame_idx + 1 = total_frames
    ELSE /\ repeat_counter' = repeat_counter + 1
         /\ current_frame_idx' = current_frame_idx
         /\ ~g_looped'

LockCounted ==
    IF LockKeys \subseteq prev'
    THEN IF lock_hold_counter + 1 >= LOCK_HOLD_FRAMES
         THEN is_locked' = ~is_locked /\ lock_hold_counter' = 0
         ELSE is_locked' = is_locked /\ lock_hold_counter' = lock_hold_counter + 1
    ELSE is_locked' = is_locked /\ lock_hold_counter' = 0

\* the same tick with nothing but the shoulder buttons down
Quiet == retro_run(Cur("err"), prev' \cap LockKeys)

MenuState ==
    <<menu_active, menu_selection, submenu_active, color_submenu_active,
      file_browser_active, fb_selection, seek_position>>

(* C27: the key lock flips on the 60th consecutive tick with L and R both  *)
(* down, and releasing either restarts the count; on a tick that leaves    *)
(* the keys locked no other control has any effect: the paused flag and    *)
(* the menu state stay, nothing is sought, and the playback position is    *)
(* where the same tick without those controls puts it.                     *)
C27_KeyLock ==
    [][g_op' = "run" =>
         /\ LockCounted
         /\ lock_hold_counter' < LOCK_HOLD_FRAMES
         /\ is_locked' =>
              /\ is_paused' = is_paused /\ MenuState' = MenuState
              /\ g_seeks' = <<>>
              /\ current_frame_idx' = Quiet.current_frame_idx
              /\ repeat_counter' = Quiet.repeat_counter
              /\ g_decodes' = Quiet.g_decodes]_vars

\* RIGHT is down on a locked, playing player and nothing was sought
C27_Witness ==
    /\ g_op = "run" /\ is_locked /\ prev = {"RIGHT"} /\ g_seeks = <<>>
    /\ is_playing /\ ~is_paused /\ ~menu_active /\ g_ticked

\* the repeat count the frame rate of a file asks for
RepeatFor(f) ==
    LET fps == IF f.usec = 0 THEN 30
               ELSE IF f.usec > 1000000 THEN 1 ELSE 1000000 \div f.usec
    IN IF fps >= 25 THEN 1 ELSE IF fps >= 12 THEN 2 ELSE 3

\* a tick whose playback block ran on a clip with frames, with no seek and
\* no menu in the way
PlayingTick ==
    /\ g_op' = "run" /\ g_ticked' /\ g_seeks' = <<>>
    /\ ~menu_active /\ ~menu_active'
    /\ video_file # NULL /\ total_frames >= 1

(* C28: repeat_count is set by an open from the frame rate of the file (at *)
(* least 25 fps gives 1, at least 12 fps gives 2, otherwise 3) and by      *)
(* nothing else; between ticks 0 <= repeat_counter < repeat_count; a       *)
(* playing tick decodes a frame exactly when it starts with                *)
(* repeat_counter = 0, and the frame cursor advances by one on every       *)
(* repeat_count-th playing tick.                                           *)
C28_FrameRepeat ==
    [][/\ g_open' = "ok" => repeat_count' = RepeatFor(disk[video_file'])
       /\ g_open' = "none" => repeat_count' = repeat_count
       /\ 0 <= repeat_counter' /\ repeat_counter' < repeat_count'
       /\ PlayingTick =>
              /\ g_decodes' = (IF repeat_counter = 0 THEN <<current_frame_idx>> ELSE <<>>)
              /\ Advanced]_vars

\* a tick without a seek whose playback block called play_audio_for_frame
\* with audio to play
AudioTick ==
    /\ g_op' = "run" /\ g_ticked' /\ g_seeks' = <<>>
    /\ has_audio /\ audio_bytes_per_sample > 0

\* the frame cursor play_audio_for_frame sees: the tick has advanced it
FrameDue ==
    IF repeat_counter + 1 >= repeat_count THEN current_frame_idx + 1
    ELSE current_frame_idx

\* expected samples less the samples sent before the tick
DueSamples ==
    (FrameDue * effective_rate') \div clip_fps + sync_offset' - audio_samples_sent

(* C29: on a playing tick to_send is current_frame_idx * effective_rate /  *)
(* clip_fps + lead_offset - audio_samples_sent; nothing is pulled or sent  *)
(* when it is <= 0; otherwise at most min(to_send, MAX_AUDIO_BUFFER)       *)
(* samples are pulled from the ring and handed to the sink, and            *)
(* audio_samples_sent grows by exactly the samples delivered.              *)
C29_DueSamples ==
    [][AudioTick =>
         /\ g_due' = (IF DueSamples > 0 THEN DueSamples ELSE 0)
         /\ 0 <= g_sent' /\ g_sent' <= Min(g_due', MAX_AUDIO_BUFFER)
         /\ ~g_looped' =>
              /\ audio_samples_sent' = audio_samples_sent + g_sent'
              /\ g_consumed' - g_consumed
                     <= Min(g_due', MAX_AUDIO_BUFFER) * audio_bytes_per_sample
              /\ g_sent' = (g_consumed' - g_consumed) \div audio_bytes_per_sample
         /\ g_looped' => audio_samples_sent' = 0]_vars

\* more than a batch was due and exactly a batch went out
C29_Witness ==
    /\ SteadyTick /\ g_due > MAX_AUDIO_BUFFER /\ g_sent = MAX_AUDIO_BUFFER
    /\ audio_samples_sent >= 2 * MAX_AUDIO_BUFFER

\* an MP3 frame holds 1152 samples from 32000 Hz up and 576 below
SamplesPerMp3Frame(rate) == IF rate >= 32000 THEN 1152 ELSE 576

\* the chunk a seek to frame f has to land on
Mp3Chunk(f, rate, fps, chunks) ==
    Min(((f * rate) \div fps) \div SamplesPerMp3Frame(rate), chunks - 1)

Mp3Loaded ==
    /\ video_file # NULL /\ total_frames >= 1
    /\ has_audio /\ audio_format = AUDIO_FMT_MP3 /\ audio_bytes_per_sample > 0

\* seek_to_frame applied to the current state
Sought(f) == seek_to_frame(Cur("err"), f)

(* C30: a seek to frame f in MP3 audio leaves audio_chunk_idx at           *)
(* (f * effective_rate / clip_fps) / spf, spf being 1152 from 32000 Hz up  *)
(* and 576 below, limited to the last audio chunk, audio_chunk_pos at 0    *)
(* and audio_samples_sent at audio_chunk_idx * spf; the staging buffer is  *)
(* empty, no refill was made and the ring is empty when the seek returns.  *)
C30_Mp3SeekMapping ==
    /\ Mp3Loaded =>
         \A f \in SeekTargets :
             /\ Sought(f).audio_chunk_idx
                    = Mp3Chunk(Sought(f).current_frame_idx, effective_rate, clip_fps,
                               total_audio_chunks)
             /\ Sought(f).audio_chunk_idx \in 0 .. total_audio_chunks - 1
             /\ Sought(f).audio_chunk_pos = 0
             /\ Sought(f).audio_samples_sent
                    = Sought(f).audio_chunk_idx * SamplesPerMp3Frame(effective_rate)
             /\ Sought(f).mp3_input_len = 0 /\ Sought(f).mp3_input_remaining = 0
             /\ Sought(f).aring_count = 0 /\ Sought(f).g_refills = <<>>
    /\ (g_seeks # <<>> /\ g_seeks[Len(g_seeks)].audio
          /\ g_seeks[Len(g_seeks)].fmt = AUDIO_FMT_MP3 /\ g_seeks[Len(g_seeks)].total >= 1) =>
         LET q == g_seeks[Len(g_seeks)]
         IN /\ q.sent = Mp3Chunk(q.frame, q.rate, q.fps, q.chunks)
                            * SamplesPerMp3Frame(q.rate)
            /\ q.sent >= 0 /\ q.refills = <<>>
            /\ halted \in {"no", "hang"}

\* an adaptive-differential stream the seek takes its own branch for
AdpcmLoaded ==
    /\ has_audio /\ audio_bytes_per_sample > 0
    /\ audio_format = AUDIO_FMT_ADPCM
    /\ adpcm_samples_per_block > 0 /\ adpcm_block_align > 0

\* the byte offset a seek to frame f asks for
AdpcmTargetBytes(f) ==
    (((f * audio_sample_rate) \div clip_fps) \div adpcm_samples_per_block)
        * adpcm_block_align

\* the cursor seek_to_frame computes for target f from the current state
AdpcmCursor(f) == seek_cursor(Cur("err"), seek_clamp(Cur("err"), f))

(* C31: a seek to frame f in adaptive-differential audio asks for byte     *)
(* ((f * rate / clip_fps) / samples_per_block) * block_align; when that    *)
(* byte lies inside the audio data the cursor is put on the chunk that     *)
(* holds it, at the block boundary at or below it inside the chunk, and    *)
(* otherwise at audio_chunk_idx = total_audio_chunks, audio_chunk_pos = 0. *)
C31_AdpcmSeekMapping ==
    AdpcmLoaded =>
        \A f \in SeekTargets :
            LET t == seek_clamp(Cur("err"), f)
                c == AdpcmCursor(f)
                before == BytesBefore(index, c.audio_chunk_idx)
            IN IF AdpcmTargetBytes(t) < BytesBefore(index, total_audio_chunks)
               THEN /\ c.audio_chunk_idx \in 0 .. total_audio_chunks - 1
                    /\ before <= AdpcmTargetBytes(t)
                    /\ AdpcmTargetBytes(t) < before + ChunkSize(index, c.audio_chunk_idx)
                    /\ c.audio_chunk_pos
                         = ((AdpcmTargetBytes(t) - before) \div adpcm_block_align)
                               * adpcm_block_align
                    /\ c.audio_chunk_pos < ChunkSize(index, c.audio_chunk_idx)
               ELSE /\ c.audio_chunk_idx = total_audio_chunks
                    /\ c.audio_chunk_pos = 0

\* the cursors the per-tick algorithm moves
TickCursors ==
    <<current_frame_idx, repeat_counter, audio_chunk_idx, audio_chunk_pos,
      audio_samples_sent, sent_wrapped, aring_read, aring_write, aring_count>>

\* the state the playback block of retro_run does not run in
NotPlaying == is_paused \/ ~is_playing

(* C32: the per-tick algorithm runs in the Playing state only.  A          *)
(* retro_run that leaves the player Paused or Stopped has not run the      *)
(* playback block: no frame was decoded for playback and no audio reached  *)
(* the sink; the frame cursor, the repeat counter, the audio cursor, the   *)
(* samples-sent count and the ring are as the tick found them unless a     *)
(* button of that tick sought or opened a file, and with no button going   *)
(* down nothing is decoded at all.                                         *)
C32_PlayingOnly ==
    [][(g_op' = "run" /\ NotPlaying') =>
          /\ ~g_ticked' /\ g_sent' = 0 /\ g_due' = 0 /\ ~g_looped'
          /\ (g_seeks' = <<>> /\ g_open' = "none") =>
                 (UNCHANGED TickCursors /\ g_refills' = <<>>)
          /\ NewlyPressed = {} =>
                 (UNCHANGED TickCursors /\ g_decodes' = <<>> /\ g_seeks' = <<>>)]_vars

\* a tick with A down has left the player paused in mid-clip: nothing was
\* decoded and nothing sent
C32_Witness ==
    /\ g_op = "run" /\ is_playing /\ is_paused /\ prev = {"A"} /\ ~g_ticked
    /\ video_file # NULL /\ has_audio /\ current_frame_idx > 0
    /\ g_decodes = <<>> /\ g_sent = 0

\* the stream offset of the first byte still staged or unread
StreamHead == BytesBefore(index, audio_chunk_idx) + audio_chunk_pos - mp3_input_len

\* where the step's refills started from: an open rewinds the stream
HeadBefore == IF g_open' = "none" THEN StreamHead ELSE 0

(* C33: a recoverable MP3 decode error is counted, drops at least one byte *)
(* from the staging buffer and does not stop playback: the tick advances   *)
(* the frame cursor as any other.  No call of the refill sees more than    *)
(* the limit of consecutive errors, and neither a refill nor a run of      *)
(* ticks stays on the same rejected bytes: over every step the stream      *)
(* offset of the staged data moves on by at least the errors counted.      *)
C33_ErrorsMoveOn ==
    [][/\ halted' = "no"
       /\ g_skipped' >= g_errors'
       /\ \A i \in 1 .. Len(g_refills') : g_refills'[i].errors \in 0 .. ErrorLimit
       /\ (g_errors' > 0 /\ ~g_looped' /\ g_seeks' = <<>>) =>
              StreamHead' >= HeadBefore + g_skipped'
       /\ (g_errors' > 0 /\ g_op' = "run" /\ Rolling /\ NewlyPressed = {}) =>
              (Advanced /\ Rolling')]_vars

\* a tick whose refill gave up at the limit of consecutive errors, with
\* rejected bytes still ahead
C33_Witness ==
    /\ g_op = "run" /\ g_ticked /\ is_playing /\ halted = "no"
    /\ \E i \in 1 .. Len(g_refills) : g_refills[i].errors = ErrorLimit
    /\ StreamHead < disk[index].mp3.junk

\* the refills of the step that dropped nothing for want of room
WholeRefills == {i \in 1 .. Len(g_refills) : g_refills[i].dropped = 0}

\* an audio stream the player plays
AudioLoaded == has_audio /\ audio_bytes_per_sample > 0

HeaderFps(f) ==
    IF disk[f].usec = 0 THEN 30
    ELSE IF disk[f].usec > 1000000 THEN 1 ELSE 1000000 \div disk[f].usec

(* C35: the source frame rate is at least 1 in every state, and after a    *)
(* parse it is 1000000 / microseconds-per-frame, 30 for a frame time of 0  *)
(* and 1 for one above 1000000; every seek and every due-sample            *)
(* computation divided by a positive clip_fps.                             *)
C35_FpsPositive ==
    /\ clip_fps >= 1
    /\ index # NULL => clip_fps = HeaderFps(index)
    /\ \A i \in 1 .. Len(g_seeks) : g_seeks[i].fps >= 1

\* a tick of the time-lapse clip has skipped: the seek divided by 1
C35_Witness ==
    /\ g_op = "run" /\ index \in {"lapse", "lapsemax"} /\ clip_fps = 1
    /\ g_seeks # <<>> /\ g_seeks[1].fps = 1 /\ g_seeks[1].audio

(* C36: in every state the audio cursor lies inside the chunk table:       *)
(* 0 <= audio_chunk_idx <= total_audio_chunks, and while it is on a chunk  *)
(* audio_chunk_pos is at most that chunk's size, so no refill path indexes *)
(* audio_sizes out of range or takes a negative remainder.                 *)
C36_AudioCursorBounds ==
    /\ audio_chunk_idx >= 0 /\ audio_chunk_idx <= total_audio_chunks
    /\ audio_chunk_idx < total_audio_chunks =>
           (audio_chunk_pos >= 0 /\ audio_chunk_pos <= ChunkSize(index, audio_chunk_idx))
    /\ halted # "oob"

\* the refills of the step that decoded compressed audio
DecodingRefills ==
    {i \in 1 .. Len(g_refills) : g_refills[i].fmt \in {AUDIO_FMT_ADPCM, AUDIO_FMT_MP3}}

(* C37: no call of the ADPCM or MP3 refill drops decoded audio.  Each is   *)
(* entered with the ring empty or below the refill threshold, appends at   *)
(* most 4096 bytes and one more decoded block, and every block it decodes  *)
(* goes into the ring whole.                                               *)
C37_NothingDropped ==
    \A i \in DecodingRefills :
        /\ g_refills[i].dropped = 0
        /\ g_refills[i].count0 < AUDIO_REFILL_THRESHOLD
        /\ g_refills[i].appended <= 4096 + 2 * ADPCM_DECODE_BUF_SIZE
        /\ g_refills[i].appended <= g_refills[i].free

\* a tick refilled a ring that already held more than 40000 bytes from an
\* MP3 stream, and the call went past 4096 bytes
C37_Witness ==
    /\ g_op = "run" /\ halted = "no"
    /\ \E i \in DecodingRefills :
           /\ g_refills[i].fmt = AUDIO_FMT_MP3
           /\ g_refills[i].count0 > 40000
           /\ g_refills[i].appended > 4096 /\ g_refills[i].dropped = 0

\* the store of the mono branch went past the last byte of the ring
MonoStorePastEnd == halted = "oob"

(* C38: while the audio is MP3 the ring's write cursor is a multiple of 4, *)
(* and no 4-byte store of the mono branch goes past the end of the ring.   *)
C38_Mp3WriteAligned ==
    /\ (has_audio /\ audio_format = AUDIO_FMT_MP3) => aring_write % 4 = 0
    /\ ~MonoStorePastEnd

\* a playing tick, with no seek and no menu, that starts on the last frame
\* of an open clip and returns
LastFrameTick == PlayingTick /\ halted' = "no" /\ current_frame_idx = total_frames - 1

(* C39: a playing tick that returns on a clip with at least one frame      *)
(* leaves 0 <= current_frame_idx < total_frames: the tick that advances    *)
(* the cursor to total_frames is the tick that resets it to 0.  A tick on  *)
(* the last frame decodes it when repeat_counter is 0, holds it while      *)
(* fewer than repeat_count ticks have shown it, and on the repeat_count-th *)
(* loops to frame 0 with repeat_counter 0, so that the next playing tick   *)
(* decodes frame 0.                                                        *)
C39_NoEndOfStream ==
    [][/\ (g_op' = "run" /\ g_ticked' /\ halted' = "no" /\ total_frames' >= 1) =>
              (0 <= current_frame_idx' /\ current_frame_idx' < total_frames')
       /\ LastFrameTick =>
              /\ repeat_counter < repeat_count
              /\ g_decodes' = (IF repeat_counter = 0 THEN <<total_frames - 1>> ELSE <<>>)
              /\ IF repeat_counter + 1 < repeat_count
                 THEN /\ current_frame_idx' = total_frames - 1
                      /\ repeat_counter' = repeat_counter + 1 /\ ~g_looped'
                 ELSE /\ current_frame_idx' = 0 /\ repeat_counter' = 0 /\ g_looped'
       /\ (PlayingTick /\ halted' = "no" /\ g_decodes' = <<0>> /\ total_frames > 1) =>
              (current_frame_idx = 0 /\ repeat_counter = 0)]_vars

\* the third tick on the last frame of a clip shown three ticks a frame has
\* looped, without decoding, to frame 0
C39_Witness ==
    /\ g_op = "run" /\ g_ticked /\ g_looped /\ g_seeks = <<>> /\ halted = "no"
    /\ repeat_count = 3 /\ g_decodes = <<>> /\ total_frames > 1
    /\ current_frame_idx = 0 /\ repeat_counter = 0

\* the main menu has the keys: no picker, browser or text page is open
MainMenu ==
    /\ menu_active /\ ~color_submenu_active /\ ~file_browser_active /\ submenu_active = 0
    /\ ~is_locked /\ ~is_locked'

\* A went down on item n of the main menu
ChoseItem(n) ==
    /\ g_op' = "run" /\ MainMenu /\ menu_selection = n
    /\ "A" \in NewlyPressed /\ "START" \notin NewlyPressed

\* the frame cursor one tick after a restart: the tick that restarts a
\* playing clip also shows frame 0 once
FrameAfterRestart ==
    IF g_ticked' /\ repeat_count' = 1 /\ total_frames' > 1 THEN 1 ELSE 0

(* C40: START on a closed menu opens it, pauses, and keeps the pause state *)
(* of before in was_paused_before_menu; while the menu stays open the      *)
(* player stays paused, the remembered state stays, the playback block     *)
(* does not run and the frame, audio and ring cursors move only by a seek  *)
(* or an open of that tick; START on the open menu and A on Go to Position *)
(* close it and restore the remembered pause state; A on Resume and on     *)
(* Restart close it unpaused, Restart from frame 0.                        *)
C40_MenuPause ==
    [][/\ (g_op' = "run" /\ ~menu_active /\ menu_active') =>
              (is_paused' /\ was_paused_before_menu' = is_paused)
       /\ (g_op' = "run" /\ menu_active /\ menu_active') =>
              /\ is_paused' /\ was_paused_before_menu' = was_paused_before_menu
              /\ ~g_ticked' /\ g_sent' = 0 /\ ~g_looped'
              /\ (g_seeks' = <<>> /\ g_open' = "none") => UNCHANGED TickCursors
       /\ (g_op' = "run" /\ menu_active /\ ~is_locked /\ ~is_locked'
           /\ "START" \in NewlyPressed) =>
              (~menu_active' /\ is_paused' = was_paused_before_menu)
       /\ ChoseItem(1) => (~menu_active' /\ is_paused' = was_paused_before_menu)
       /\ ChoseItem(4) => (~menu_active' /\ ~is_paused')
       /\ ChoseItem(7) =>
              /\ ~menu_active' /\ ~is_paused'
              /\ Len(g_seeks') = 1 /\ g_seeks'[1].frame = 0
              /\ \A i \in 1 .. Len(g_decodes') : g_decodes'[i] = 0
              /\ current_frame_idx' = FrameAfterRestart]_vars

====
